---- MODULE Spec2Model ----
(***************************************************************************)
(* Audio pipeline of the session generator: the /generate request around   *)
(* mixdown_to_wav (api.py, mixdown.py), the WAV statistics probe           *)
(* (audio_stats.py) and the numeric steps of the mixdown (offset           *)
(* placement, sidechain ducking, sum, master chain), the WAV codec         *)
(* (utils.py, audio_io.py) and the signal utilities.                       *)
(*                                                                         *)
(* The specifications of this module:                                      *)
(*   Spec / FairSpec  generate + mixdown_to_wav's availability wait, with  *)
(*                    external producers changing the stem files,          *)
(*   SpecStats        wav_stats against a file another process may change, *)
(*   SpecMix          steps 5-7 of mixdown_to_wav on bounded stems,        *)
(*   SpecEnv          the loop of _envelope_iir fed sample by sample,      *)
(*   SpecCodec        save_wave followed by read_wave, and read_wave on    *)
(*                    files written elsewhere,                             *)
(*   SpecDsp          one call of resample_linear, fade or normalize,      *)
(*   SpecMaster       the master chain of mixdown_to_wav up to save_wave,  *)
(*   SpecBed          one call of generate_music_bed or                    *)
(*                    generate_binaural_track,                             *)
(*   SpecPar          two concurrent mixdown_to_wav calls of /generate,    *)
(*   SpecPick         _pick_binaural_band_and_beat on one request,         *)
(*   SpecTts          synthesize_tts_cached and generate's use of its      *)
(*                    result,                                              *)
(*   SpecScan /       the chunked scan loop of wav_stats on one file,      *)
(*   FairSpecScan     with the levels it returns.                          *)
(* The variables of the other specifications stay at their idle values.    *)
(***************************************************************************)
EXTENDS Integers, Sequences, FiniteSets, TLC

VARIABLES
    \* ---- generate / mixdown_to_wav control (Spec)
    pc,          \* position of the request in generate / mixdown_to_wav
    want_mix,    \* request.mixdown
    files,       \* state of the three stem files on disk
    seen,        \* stems the latest existence test of the wait found present
    attempt,     \* iterations of the wait loop started so far
    sleeps,      \* time.sleep(0.1) calls made by the wait loop
    waitEnd,     \* how the wait loop ended: "none" | "break" | "exhausted"
    parentMade,  \* out_wav's parent directory was created by ensure_parent
    out,         \* state of out_wav: "absent" | "old" | "partial" | "new"
    err,         \* exception mixdown_to_wav raised: "none" | "decode" | "io"
    mix_path,    \* generate's local mix_path: "None" | "rel"
    mixErrTxt,   \* run_dir/mix_error.txt has been written
    resp,        \* the GenerationResponse returned, or NoResp
    \* ---- wav_stats (SpecStats)
    wpc,         \* position inside wav_stats
    wfile,       \* the probed file as it is on disk now
    wlimit,      \* max_seconds: "none" | "zero" | "some"
    wsize,       \* local variable size (line 48)
    wopened,     \* content seen through the handle wave.open returned
    hexists,     \* value of the handler's first path.exists()
    touched,     \* another process changed the file during the call
    wres,        \* the WavStats returned, or NoStats
    \* ---- steps 5-7 of mixdown_to_wav (SpecMix), _envelope_iir (SpecEnv)
    mpc,         \* position inside the numeric part of mixdown_to_wav
    cfg,         \* the MixSettings of the call
    stem,        \* v, m, b after resampling and pre-normalization
    placed,      \* v, m, b after lines 108-110 (offset, volume)
    env,         \* the envelope of the placed voice (line 116)
    duck,        \* duck_m and duck_b, the gains of lines 122 and 125
    ducked,      \* v, m, b after line 126
    mix,         \* the sum of lines 128-132
    ey,          \* y of _envelope_iir's loop
    ex,          \* abs_signal[i], the sample the loop consumed last
    ei,          \* parity of the loop index i
    \* ---- save_wave and read_wave (SpecCodec)
    cpc,         \* position inside save_wave / read_wave
    sig,         \* save_wave's argument signal
    clipped,     \* np.clip(signal, -1.0, 1.0), frame by frame
    start,       \* start of the chunk loop, in frames
    wavfile,     \* the WAV file on disk
    decoded,     \* what read_wave returned or raised
    \* ---- resample_linear, fade, normalize (SpecDsp)
    dpc,         \* "call" before the function runs, then "returned" / "raised"
    dcall,       \* the function called and its arguments
    dret,        \* the value returned
    \* ---- the master chain of mixdown_to_wav (SpecMaster)
    kpc,         \* position in lines 135-139
    ksr,         \* settings.sample_rate
    kmix,        \* the array mix, numerators of its samples
    kden,        \* common denominator of the samples of kmix
    knorm,       \* what fixes the gain normalize applied to kmix
    ksave,       \* save_wave's clipped array: per sample, was it limited
    \* ---- generate_music_bed and generate_binaural_track (SpecBed)
    bpc,         \* position inside the generator
    bcall,       \* the generator called and its arguments
    bleft,       \* the array left (l), numerators over bden
    bright,      \* the array right (r), numerators over bden
    bden,        \* common denominator of bleft and bright
    bstereo,     \* the array stereo after normalize
    bfile,       \* the WAV file at output_path
    \* ---- two concurrent mixdown_to_wav calls (SpecPar)
    qpc,         \* position of each call inside mixdown_to_wav
    qvoice,      \* voice_wav of each call
    qsettings,   \* settings of each call
    qsamedir,    \* the two output paths have the same parent directory
    qstems,      \* contents of the stem files on disk
    qstems0,     \* contents of the stem files when the calls started
    qdirs,       \* directories that exist
    qarrays,     \* v_mono, m, b as decoded, per frame of local variables
    qmix,        \* the array mix of each call before save_wave
    qout,        \* contents of each output path
    \* ---- _pick_binaural_band_and_beat (SpecPick)
    hpc,         \* "call" before _pick_binaural_band_and_beat runs, then "returned"
    hreq,        \* the request
    hret,        \* the band and beat returned
    \* ---- synthesize_tts_cached (SpecTts)
    tpc,         \* position inside synthesize_tts_cached, then in the caller
    tcall,       \* provider and base_dir of the call
    tcache,      \* the cache file of the call's key
    tout,        \* the file at output_path
    tused,       \* local variable provider_used
    terror,      \* local variable error
    tret,        \* the value the call evaluated to
    \* ---- the scan of wav_stats (SpecScan)
    spc,         \* position inside the scan of wav_stats
    sfile,       \* the opened file: header fields and data bytes
    smax,        \* max_seconds
    sremaining,  \* local variable remaining
    spos,        \* bytes of data consumed through the handle
    sn,          \* n of the latest iteration
    sraw,        \* raw of the latest iteration
    sx,          \* x as decoded in the latest iteration, before the downmix
    speak,       \* local variable peak
    ssumsq,      \* local variable sumsq
    scount,      \* local variable count
    sres         \* the WavStats returned

genVars == <<pc, want_mix, files, seen, attempt, sleeps, waitEnd, parentMade,
             out, err, mix_path, mixErrTxt, resp>>
mixVars == <<mpc, cfg, stem, placed, env, duck, ducked, mix>>
envVars == <<ey, ex, ei>>
statVars == <<wpc, wfile, wlimit, wsize, wopened, hexists, touched, wres>>
codecVars == <<cpc, sig, clipped, start, wavfile, decoded>>
dspVars == <<dpc, dcall, dret>>
masterVars == <<kpc, ksr, kmix, kden, knorm, ksave>>
bedVars == <<bpc, bcall, bleft, bright, bden, bstereo, bfile>>
parVars ==
    <<qpc, qvoice, qsettings, qsamedir, qstems, qstems0, qdirs, qarrays, qmix, qout>>
pickVars == <<hpc, hreq, hret>>
ttsVars == <<tpc, tcall, tcache, tout, tused, terror, tret>>
scanVars ==
    <<spc, sfile, smax, sremaining, spos, sn, sraw, sx, speak, ssumsq, scount, sres>>

-----------------------------------------------------------------------------
(* generate and mixdown_to_wav                                               *)

Stems == {"voice", "music", "binaural"}

\* A stem file is missing, present but not decodable (partly written,
\* malformed), or a readable WAV.
FileStates == {"absent", "bad", "good"}

\* range(40) of the availability wait.
WaitAttempts == 40

NoResp == [kind |-> "none"]

Exists(s) == files[s] # "absent"

\* read_wave / read_wave_mono succeed exactly on a readable WAV; a missing
\* file raises FileNotFoundError, a malformed one wave.Error / EOFError /
\* ValueError.
Decodes(s) == files[s] = "good"

\* voice_wav.exists() and music_wav.exists() and binaural_wav.exists()
AllExist == \A s \in Stems : Exists(s)

GenIdle ==
    /\ pc = "idle" /\ want_mix = FALSE
    /\ files = [s \in Stems |-> "absent"]
    /\ seen = {} /\ attempt = 0 /\ sleeps = 0 /\ waitEnd = "none"
    /\ parentMade = FALSE /\ out = "absent" /\ err = "none"
    /\ mix_path = "None" /\ mixErrTxt = FALSE /\ resp = NoResp

\* State on entry of step 1) of generate: a fresh run directory, except that
\* the mix path may hold an older file (mixdown_to_wav overwrites).
GenInit ==
    /\ pc = "tts"
    /\ want_mix \in BOOLEAN
    /\ files = [s \in Stems |-> "absent"]
    /\ seen = {} /\ attempt = 0 /\ sleeps = 0 /\ waitEnd = "none"
    /\ parentMade = FALSE
    /\ out \in {"absent", "old"}
    /\ err = "none"
    /\ mix_path = "None" /\ mixErrTxt = FALSE /\ resp = NoResp

\* An external producer (the TTS engine finishing late) or any other process
\* creates, rewrites, corrupts or removes a stem file.
FileChange ==
    /\ pc \notin {"idle", "done", "failed"}
    /\ \E s \in Stems, st \in FileStates :
          /\ files[s] # st
          /\ files' = [files EXCEPT ![s] = st]
    /\ UNCHANGED <<pc, want_mix, seen, attempt, sleeps, waitEnd, parentMade,
                   out, err, mix_path, mixErrTxt, resp>>

\* 1) synthesize_tts_cached returns: the voice WAV is written, or (pyttsx3)
\* still being written when the call returns.
Tts ==
    /\ pc = "tts"
    /\ \E st \in FileStates : files' = [files EXCEPT !["voice"] = st]
    /\ pc' = "music"
    /\ UNCHANGED <<want_mix, seen, attempt, sleeps, waitEnd, parentMade, out,
                   err, mix_path, mixErrTxt, resp>>

\* synthesize_tts_cached raises (provider and fallback both failed): the
\* outer handler of generate answers with the cached response or HTTP 500.
TtsRaises ==
    /\ pc = "tts"
    /\ pc' = "failed"
    /\ UNCHANGED <<want_mix, files, seen, attempt, sleeps, waitEnd, parentMade,
                   out, err, mix_path, mixErrTxt, resp>>

\* 2) generate_music_bed writes the music stem synchronously.
Music ==
    /\ pc = "music"
    /\ files' = [files EXCEPT !["music"] = "good"]
    /\ pc' = "binaural"
    /\ UNCHANGED <<want_mix, seen, attempt, sleeps, waitEnd, parentMade, out,
                   err, mix_path, mixErrTxt, resp>>

\* 3) generate_binaural_track writes the binaural stem; then
\* mix_path = None and the test of request.mixdown.
Binaural ==
    /\ pc = "binaural"
    /\ files' = [files EXCEPT !["binaural"] = "good"]
    /\ mix_path' = "None"
    /\ pc' = IF want_mix THEN "md_enter" ELSE "latest"
    /\ UNCHANGED <<want_mix, seen, attempt, sleeps, waitEnd, parentMade, out,
                   err, mixErrTxt, resp>>

\* Fault variant: out_wav is opened for writing on entry.
MdEnterTruncates ==
    /\ pc = "md_enter"
    /\ parentMade' = TRUE
    /\ out' = "partial"
    /\ pc' = "poll"
    /\ UNCHANGED <<want_mix, files, seen, attempt, sleeps, waitEnd, err,
                   mix_path, mixErrTxt, resp>>
\* mixdown_to_wav lines 69-70: default settings, ensure_parent(out_wav).
MdEnter ==
    /\ pc = "md_enter"
    /\ parentMade' = TRUE
    /\ pc' = "poll"
    /\ UNCHANGED <<want_mix, files, seen, attempt, sleeps, waitEnd, out, err,
                   mix_path, mixErrTxt, resp>>

\* Fault variant: a retry loop that does not count its attempts.
SleepAndNextForever ==
    /\ sleeps' = sleeps
    /\ attempt' = attempt
    /\ waitEnd' = waitEnd
    /\ pc' = "poll"
\* time.sleep(0.1), then the for statement takes the next value of range(40)
\* or, when there is none, falls through to the decode step.
SleepAndNext ==
    /\ sleeps' = sleeps + 1
    /\ attempt' = attempt + 1
    /\ IF attempt + 1 < WaitAttempts
         THEN pc' = "poll" /\ waitEnd' = waitEnd
         ELSE pc' = "load_v" /\ waitEnd' = "exhausted"

\* Line 74 and its else branch (81-82): the three existence tests.
Poll ==
    /\ pc = "poll"
    /\ seen' = {s \in Stems : Exists(s)}
    /\ IF AllExist
         THEN pc' = "probe" /\ UNCHANGED <<attempt, sleeps, waitEnd>>
         ELSE SleepAndNext
    /\ UNCHANGED <<want_mix, files, parentMade, out, err, mix_path, mixErrTxt,
                   resp>>

\* Fault variant: the break is taken whatever the trial decode does.
ProbeAlwaysBreaks ==
    /\ pc = "probe"
    /\ pc' = "load_v" /\ waitEnd' = "break" /\ UNCHANGED <<attempt, sleeps>>
    /\ UNCHANGED <<want_mix, files, seen, parentMade, out, err, mix_path,
                   mixErrTxt, resp>>
\* Lines 75-80: the trial decode of the voice stem; break on success, sleep
\* on any exception.
Probe ==
    /\ pc = "probe"
    /\ IF Decodes("voice")
         THEN pc' = "load_v" /\ waitEnd' = "break" /\ UNCHANGED <<attempt, sleeps>>
         ELSE SleepAndNext
    /\ UNCHANGED <<want_mix, files, seen, parentMade, out, err, mix_path,
                   mixErrTxt, resp>>

\* Lines 84-86: one decode each; an exception leaves mixdown_to_wav.
LoadStep(s, next) ==
    /\ IF Decodes(s)
         THEN pc' = next /\ err' = err
         ELSE pc' = "md_raised" /\ err' = "decode"
    /\ UNCHANGED <<want_mix, files, seen, attempt, sleeps, waitEnd, parentMade,
                   out, mix_path, mixErrTxt, resp>>

LoadVoice == pc = "load_v" /\ LoadStep("voice", "load_m")
LoadMusic == pc = "load_m" /\ LoadStep("music", "load_b")
LoadBinaural == pc = "load_b" /\ LoadStep("binaural", "master")

\* Lines 88-140: the numeric steps (SpecMix) and save_wave, which opens
\* out_wav for writing and streams the chunks.
Master ==
    /\ pc = "master"
    /\ out' = "new"
    /\ pc' = "md_ret"
    /\ UNCHANGED <<want_mix, files, seen, attempt, sleeps, waitEnd, parentMade,
                   err, mix_path, mixErrTxt, resp>>

\* save_wave fails while writing (disk full, I/O error): the file is left
\* partly written and the OSError leaves mixdown_to_wav.
MasterFails ==
    /\ pc = "master"
    /\ out' = "partial"
    /\ err' = "io"
    /\ pc' = "md_raised"
    /\ UNCHANGED <<want_mix, files, seen, attempt, sleeps, waitEnd, parentMade,
                   mix_path, mixErrTxt, resp>>

\* api.py line 1256: mixdown_to_wav returned.
MixOk ==
    /\ pc = "md_ret"
    /\ mix_path' = "rel"
    /\ pc' = "latest"
    /\ UNCHANGED <<want_mix, files, seen, attempt, sleeps, waitEnd, parentMade,
                   out, err, mixErrTxt, resp>>

\* Fault variant: the handler lets the exception reach the outer handler.
MixHandlerReraises ==
    /\ pc = "md_raised"
    /\ pc' = "failed"
    /\ UNCHANGED <<want_mix, files, seen, attempt, sleeps, waitEnd, parentMade,
                   out, err, mix_path, mixErrTxt, resp>>
\* api.py lines 1257-1259: except Exception around the mixdown call.
MixHandler ==
    /\ pc = "md_raised"
    /\ mixErrTxt' = TRUE
    /\ mix_path' = "None"
    /\ pc' = "latest"
    /\ UNCHANGED <<want_mix, files, seen, attempt, sleeps, waitEnd, parentMade,
                   out, err, resp>>

\* api.py lines 1262-1272: the "latest" copies; every exception is swallowed.
CopyLatest ==
    /\ pc = "latest"
    /\ pc' = "respond"
    /\ UNCHANGED <<want_mix, files, seen, attempt, sleeps, waitEnd, parentMade,
                   out, err, mix_path, mixErrTxt, resp>>

\* api.py lines 1274-1305: the response is built from the relative paths and
\* returned.
Respond ==
    /\ pc = "respond"
    /\ resp' = [kind |-> "response", tts_audio_path |-> "tts_rel",
                music_path |-> "music_rel", binaural_path |-> "binaural_rel",
                mix_path |-> mix_path]
    /\ pc' = "done"
    /\ UNCHANGED <<want_mix, files, seen, attempt, sleeps, waitEnd, parentMade,
                   out, err, mix_path, mixErrTxt>>

\* The steps of the request itself (everything but the other processes).
GenStep ==
    \/ Tts \/ TtsRaises \/ Music \/ Binaural
    \/ MdEnter \/ Poll \/ Probe
    \/ LoadVoice \/ LoadMusic \/ LoadBinaural
    \/ Master \/ MasterFails
    \/ MixOk \/ MixHandler \/ CopyLatest \/ Respond

-----------------------------------------------------------------------------
(* wav_stats                                                                 *)

\* "if size <= 44:  # header only"
HeaderBytes == 44

\* What the bytes of an existing file are to the wave module:
\*   malformed  wave.open raises (no RIFF/WAVE header, truncated header,
\*              unreadable file),
\*   badwidth   a PCM header whose sample width is outside 1..4 bytes,
\*   empty      a valid header and no frame of data,
\*   ragged     a valid header, data that ends inside a sample (np.frombuffer
\*              or reshape raises ValueError),
\*   good       a valid header and whole frames.
Contents == {"malformed", "badwidth", "empty", "ragged", "good"}

AbsentFile == [exists |-> FALSE, size |-> 0, content |-> "none"]

\* A file of at most 44 bytes holds no sample data.
PresentFiles ==
    {f \in [exists : {TRUE}, size : {20, 44, 45, 100}, content : Contents] :
        f.size <= HeaderBytes => f.content \in {"malformed", "empty"}}

WFileStates == {AbsentFile} \cup PresentFiles

NoStats == [kind |-> "none"]

\* WavStats(...): has_header stands for sample_rate/channels/frames/duration_s,
\* has_levels for peak_dbfs and rms_dbfs.
WavStats(e, b, hdr, lev, msg) ==
    [kind |-> "WavStats", exists |-> e, bytes |-> b, has_header |-> hdr,
     has_levels |-> lev, error |-> msg]

StatIdle ==
    /\ wpc = "idle" /\ wfile = AbsentFile /\ wlimit = "none" /\ wsize = 0
    /\ wopened = "none" /\ hexists = FALSE /\ touched = FALSE /\ wres = NoStats

\* wav_stats(path, max_seconds=...) is called on any path.
StatInit ==
    /\ wpc = "exists"
    /\ wfile \in WFileStates
    /\ wlimit \in {"none", "zero", "some"}
    /\ wsize = 0 /\ wopened = "none" /\ hexists = FALSE
    /\ touched = FALSE /\ wres = NoStats

WReturn(r) == wpc' = "returned" /\ wres' = r

\* An exception inside the try block: control moves to line 144.
WRaiseInTry == wpc' = "h_exists1" /\ wres' = wres

\* Another process replaces, truncates, rewrites or removes the file while
\* the call runs.
WFileChange ==
    /\ wpc \notin {"idle", "returned", "raised"}
    /\ \E f \in WFileStates : f # wfile /\ wfile' = f
    /\ touched' = TRUE
    /\ UNCHANGED <<wpc, wlimit, wsize, wopened, hexists, wres>>

\* Lines 46-47.
WExists ==
    /\ wpc = "exists"
    /\ IF ~wfile.exists
         THEN WReturn(WavStats(FALSE, 0, FALSE, FALSE, "None"))
         ELSE wpc' = "stat" /\ wres' = wres
    /\ UNCHANGED <<wfile, wlimit, wsize, wopened, hexists, touched>>

\* Fault variant: a header of exactly 44 bytes passes the size test.
TooSmallStrict(size) == size < HeaderBytes
\* The size test of line 49.
TooSmall(size) == size <= HeaderBytes

\* Lines 48-50: path.stat() raises FileNotFoundError on a file that is gone.
WStat ==
    /\ wpc = "stat"
    /\ IF ~wfile.exists
         THEN WRaiseInTry /\ wsize' = wsize
         ELSE /\ wsize' = wfile.size
              /\ IF TooSmall(wfile.size)
                   THEN WReturn(WavStats(TRUE, wfile.size, FALSE, FALSE,
                                         "File too small"))
                   ELSE wpc' = "open" /\ wres' = wres
    /\ UNCHANGED <<wfile, wlimit, wopened, hexists, touched>>

\* Lines 52-68: wave.open, the four header getters, the width test.
WOpen ==
    /\ wpc = "open"
    /\ IF ~wfile.exists \/ wfile.content = "malformed"
         THEN WRaiseInTry /\ wopened' = wopened
         ELSE /\ wopened' = wfile.content
              /\ IF wfile.content = "badwidth"
                   THEN WReturn(WavStats(TRUE, wsize, TRUE, FALSE,
                                         "Unsupported sample width"))
                   ELSE wpc' = "scan" /\ wres' = wres
    /\ UNCHANGED <<wfile, wlimit, wsize, hexists, touched>>

\* What the chunk loop reads: the data the handle was opened on, or, when the
\* file was rewritten in place meanwhile, the data that is there now.
ScanViews ==
    {wopened} \cup (IF wfile.exists /\ touched THEN {wfile.content} ELSE {})

\* Result of the scan and of lines 118-143 on data c.
ScanResult(c) ==
    IF wlimit = "zero" \/ c = "empty"
      THEN WavStats(TRUE, wsize, TRUE, FALSE, "No frames decoded")
      ELSE WavStats(TRUE, wsize, TRUE, TRUE, "None")

\* Lines 70-143: frames_to_read, the chunk loop, the final record. With
\* max_seconds * sr < 1 no frame is read at all.
WScan ==
    /\ wpc = "scan"
    /\ \E c \in ScanViews :
          IF wlimit # "zero" /\ c \notin {"empty", "good"}
            THEN WRaiseInTry
            ELSE WReturn(ScanResult(c))
    /\ UNCHANGED <<wfile, wlimit, wsize, wopened, hexists, touched>>

\* Line 145 evaluates, in this order, path.exists() for exists=, path.exists()
\* for the conditional, and path.stat() when the second test was true.
WHandlerExists ==
    /\ wpc = "h_exists1"
    /\ hexists' = wfile.exists
    /\ wpc' = "h_exists2"
    /\ UNCHANGED <<wfile, wlimit, wsize, wopened, touched, wres>>

WHandlerExistsAgain ==
    /\ wpc = "h_exists2"
    /\ IF wfile.exists
         THEN wpc' = "h_stat" /\ wres' = wres
         ELSE WReturn(WavStats(hexists, 0, FALSE, FALSE, "exception"))
    /\ UNCHANGED <<wfile, wlimit, wsize, wopened, hexists, touched>>

\* path.stat() in the handler is outside any try: FileNotFoundError leaves
\* wav_stats.
WHandlerStat ==
    /\ wpc = "h_stat"
    /\ IF wfile.exists
         THEN WReturn(WavStats(hexists, wfile.size, FALSE, FALSE, "exception"))
         ELSE wpc' = "raised" /\ wres' = wres
    /\ UNCHANGED <<wfile, wlimit, wsize, wopened, hexists, touched>>

StatStep ==
    \/ WExists \/ WStat \/ WOpen \/ WScan
    \/ WHandlerExists \/ WHandlerExistsAgain \/ WHandlerStat

-----------------------------------------------------------------------------
(* mixdown_to_wav, steps 5 to 7, and _envelope_iir                           *)
(*                                                                           *)
(* Samples are integers on a grid of amplitude units; a stereo frame is a    *)
(* pair <<left, right>>.  Offsets are in quarters of a second, volumes in    *)
(* quarters, ducking strengths in halves, so every product of the code is an *)
(* exact integer here: after the volume a sample is in quarter units, after  *)
(* the ducking gain in 1/GainDen of a quarter unit.                          *)

\* Longest voice stem and longest bed (music, binaural) stem, in frames.
MaxVoiceLen == 2
MaxBedLen == 1

\* max(1e-6, thr) of line 120, in quarter units.
DuckMinDiv == 2

Max(a, b) == IF a >= b THEN a ELSE b
Min(a, b) == IF a <= b THEN a ELSE b
Abs(x) == IF x < 0 THEN -x ELSE x

\* Python's round() on the non-negative rational n/d: to nearest, ties to the
\* even integer.
RoundHalfEven(n, d) ==
    LET q == n \div d
        r == n % d
    IN  IF 2 * r < d THEN q
        ELSE IF 2 * r > d THEN q + 1
        ELSE IF q % 2 = 0 THEN q ELSE q + 1

Silence(n) == [i \in 1..n |-> <<0, 0>>]

\* Fault variant: the silence is appended instead of prepended.
place_with_offset_tail(signal, offset_q, sr) ==
    IF offset_q <= 0 THEN signal
    ELSE LET n0 == RoundHalfEven(offset_q * sr, 4)
         IN  IF n0 <= 0 THEN signal ELSE signal \o Silence(n0)
\* _place_with_offset for an offset of offset_q / 4 seconds.
place_with_offset(signal, offset_q, sr) ==
    IF offset_q <= 0 THEN signal
    ELSE LET n0 == RoundHalfEven(offset_q * sr, 4)
         IN  IF n0 <= 0 THEN signal ELSE Silence(n0) \o signal

\* signal * k, frame by frame.
Scaled(signal, k) ==
    [i \in 1..Len(signal) |-> <<signal[i][1] * k, signal[i][2] * k>>]

\* alpha = exp(-1 / (sr * max(0.001, tau_s))) as <<numerator, denominator>>,
\* rounded down to a quarter (and up to 1/4): exp(-1000/p) reaches 1/2 at
\* p = 1443 and 3/4 at p = 3477, p = sr * tau in Hz * ms.
Alpha(sr, tau_ms) ==
    LET p == sr * Max(1, tau_ms)
    IN  IF p < 1443 THEN <<1, 4>> ELSE IF p < 3477 THEN <<1, 2>> ELSE <<3, 4>>

\* Fault variant: no smoothing, the envelope is the rectified sample.
EnvNextRaw(y, x, a) == x
\* Fault variant: a peak hold, no decay.
EnvNextHold(y, x, a) == Max(y, x)
\* One iteration of the loop of _envelope_iir (line 56); the result is kept
\* on the amplitude grid (rounded toward zero).
EnvNext(y, x, a) == (a[1] * y + (a[2] - a[1]) * x) \div a[2]

\* _envelope_iir: y starts at 0 and out[i] is y after sample i.
RECURSIVE envelope_iir(_, _)
envelope_iir(abs_signal, a) ==
    IF abs_signal = <<>> THEN <<>>
    ELSE LET n == Len(abs_signal)
             head == envelope_iir(SubSeq(abs_signal, 1, n - 1), a)
             y == IF n = 1 THEN 0 ELSE head[n - 1]
         IN  Append(head, EnvNext(y, abs_signal[n], a))

\* Line 120: mask = clip((env - thr) / max(1e-6, thr), 0, 1), as the
\* numerator of mask over DuckDiv(thr).
DuckDiv(thr) == Max(DuckMinDiv, thr)
Mask(e, thr) == Max(0, Min(e - thr, DuckDiv(thr)))

\* Denominator of the gains: strength is in halves, the mask over DuckDiv.
GainDen(thr) == 2 * DuckDiv(thr)
\* Fault variant: the sign of the ducking term is flipped.
GainBoost(e, thr, strength_h) == GainDen(thr) + strength_h * Mask(e, thr)
\* Lines 122 and 125: 1 - strength * mask with strength = strength_h / 2, as
\* the numerator of the gain over GainDen(thr).
Gain(e, thr, strength_h) == GainDen(thr) - strength_h * Mask(e, thr)

\* mask[: bed.shape[0]] turned into gains: one gain per frame of the bed that
\* the mask covers.
DuckGains(envelope, bed, thr, strength_h) ==
    [i \in 1..Min(Len(envelope), Len(bed)) |-> Gain(envelope[i], thr, strength_h)]

\* Fault variant: the bed is cut to the frames the gains cover.
ApplyGainsCut(bed, gains, den) ==
    [i \in 1..Min(Len(bed), Len(gains)) |->
        <<bed[i][1] * gains[i], bed[i][2] * gains[i]>>]
\* bed[: duck.shape[0], :] *= duck[:, None]; frames the gains do not cover
\* keep their value (gain 1, that is den / den).
ApplyGains(bed, gains, den) ==
    [i \in 1..Len(bed) |->
        LET g == IF i <= Len(gains) THEN gains[i] ELSE den
        IN  <<bed[i][1] * g, bed[i][2] * g>>]

\* Line 113.
DuckingApplies(c, p) ==
    c.ducking_enabled /\ Len(p.v) > 0 /\ (Len(p.m) > 0 \/ Len(p.b) > 0)

\* Fault variant: the buffer is sized to the shortest stem.
MixLengthShortest(p) == Min(Len(p.v), Min(Len(p.m), Len(p.b)))
\* Line 128.
MixLength(p) == Max(Len(p.v), Max(Len(p.m), Len(p.b)))

FrameAt(signal, i) == IF i <= Len(signal) THEN signal[i] ELSE <<0, 0>>

\* Lines 129-132: each stem is added into its prefix of the zero buffer.
SumStems(p) ==
    [i \in 1..MixLength(p) |->
        <<FrameAt(p.v, i)[1] + FrameAt(p.m, i)[1] + FrameAt(p.b, i)[1],
          FrameAt(p.v, i)[2] + FrameAt(p.m, i)[2] + FrameAt(p.b, i)[2]>>]

SeqsUpTo(S, n) == UNION {[1..k -> S] : k \in 0..n}

\* The voice is mono, duplicated into both channels (line 96).
VoiceStems ==
    {[i \in 1..Len(mono) |-> <<mono[i], mono[i]>>] :
        mono \in SeqsUpTo({0, -3}, MaxVoiceLen)}

BedStems == SeqsUpTo({<<1, -2>>, <<0, 2>>}, MaxBedLen)

\* <<voice, music, binaural>> offsets in quarter seconds; an offset <= 0 is
\* accepted by MixSettings and places nothing.
OffsetChoices == {<<0, 0, 0>>, <<6, 0, 4>>, <<2, 4, -4>>, <<4, 6, 2>>}

\* <<voice, music, binaural>> volumes in quarters (models.py: 0.0 to 2.0).
VolumeChoices == {<<4, 1, 1>>, <<8, 4, 0>>}

DuckingChoices ==
    {[enabled |-> FALSE, threshold |-> 4, strengths |-> <<1, 1>>, release_ms |-> 80]}
    \cup [enabled : {TRUE}, threshold : {1, 4},
          strengths : {<<2, 1>>, <<1, 0>>}, release_ms : {0, 2000}]

Settings(sr, off, vol, d) ==
    [sample_rate |-> sr,
     voice_offset_q |-> off[1], music_offset_q |-> off[2],
     binaural_offset_q |-> off[3],
     voice_volume_q |-> vol[1], music_volume_q |-> vol[2],
     binaural_volume_q |-> vol[3],
     ducking_enabled |-> d.enabled,
     ducking_threshold |-> d.threshold,
     ducking_strength_music_h |-> d.strengths[1],
     ducking_strength_binaural_h |-> d.strengths[2],
     ducking_release_ms |-> d.release_ms]

MixSettings ==
    {Settings(sr, off, vol, d) :
        sr \in {1, 2}, off \in OffsetChoices, vol \in VolumeChoices,
        d \in DuckingChoices}

DefaultSettings ==
    Settings(1, <<0, 0, 0>>, <<4, 1, 1>>,
             [enabled |-> FALSE, threshold |-> 4, strengths |-> <<1, 1>>,
              release_ms |-> 80])

NoStems == [v |-> <<>>, m |-> <<>>, b |-> <<>>]
NoGains == [m |-> <<>>, b |-> <<>>]

MixIdle ==
    /\ mpc = "idle" /\ cfg = DefaultSettings /\ stem = NoStems
    /\ placed = NoStems /\ env = <<>> /\ duck = NoGains /\ ducked = NoStems
    /\ mix = <<>>

EnvIdle == ey = 0 /\ ex = 0 /\ ei = 0

\* State at line 108: any settings, any three stems.
MixInit ==
    /\ mpc = "place"
    /\ cfg \in MixSettings
    /\ stem \in [v : VoiceStems, m : BedStems, b : BedStems]
    /\ placed = NoStems /\ env = <<>> /\ duck = NoGains /\ ducked = NoStems
    /\ mix = <<>>

\* Lines 108-110.
Place ==
    /\ mpc = "place"
    /\ placed' =
         [v |-> Scaled(place_with_offset(stem.v, cfg.voice_offset_q, cfg.sample_rate),
                       cfg.voice_volume_q),
          m |-> Scaled(place_with_offset(stem.m, cfg.music_offset_q, cfg.sample_rate),
                       cfg.music_volume_q),
          b |-> Scaled(place_with_offset(stem.b, cfg.binaural_offset_q, cfg.sample_rate),
                       cfg.binaural_volume_q)]
    /\ mpc' = "duck"
    /\ UNCHANGED <<cfg, stem, env, duck, ducked, mix>>

\* Lines 113-126.  Without ducking the stems pass unchanged (here: brought
\* to the common denominator).
Duck ==
    /\ mpc = "duck"
    /\ LET den == GainDen(cfg.ducking_threshold)
           e == envelope_iir([i \in 1..Len(placed.v) |-> Abs(placed.v[i][1])],
                             Alpha(cfg.sample_rate, cfg.ducking_release_ms))
           gm == DuckGains(e, placed.m, cfg.ducking_threshold,
                           cfg.ducking_strength_music_h)
           gb == DuckGains(e, placed.b, cfg.ducking_threshold,
                           cfg.ducking_strength_binaural_h)
       IN  IF DuckingApplies(cfg, placed)
             THEN /\ env' = e
                  /\ duck' = [m |-> gm, b |-> gb]
                  /\ ducked' = [v |-> Scaled(placed.v, den),
                                m |-> ApplyGains(placed.m, gm, den),
                                b |-> ApplyGains(placed.b, gb, den)]
             ELSE /\ env' = <<>>
                  /\ duck' = NoGains
                  /\ ducked' = [v |-> Scaled(placed.v, den),
                                m |-> Scaled(placed.m, den),
                                b |-> Scaled(placed.b, den)]
    /\ mpc' = "sum"
    /\ UNCHANGED <<cfg, stem, placed, mix>>

\* Lines 128-132.
Sum ==
    /\ mpc = "sum"
    /\ mix' = SumStems(ducked)
    /\ mpc' = "done"
    /\ UNCHANGED <<cfg, stem, placed, env, duck, ducked>>

MixStep == Place \/ Duck \/ Sum

\* _envelope_iir on a voice of any length: the loop consumes one sample
\* |x| per iteration.
EnvInit ==
    /\ mpc = "env"
    /\ cfg \in {c \in MixSettings : c.ducking_enabled}
    /\ stem = NoStems /\ placed = NoStems /\ env = <<>> /\ duck = NoGains
    /\ ducked = NoStems /\ mix = <<>>
    /\ ey = 0 /\ ex = 0 /\ ei = 0

EnvLoop ==
    /\ mpc = "env"
    /\ \E x \in {0, 3, 12, 24} :
          /\ ex' = x
          /\ ey' = EnvNext(ey, x, Alpha(cfg.sample_rate, cfg.ducking_release_ms))
    /\ ei' = 1 - ei
    /\ UNCHANGED mixVars

-----------------------------------------------------------------------------
(* WAV codec: save_wave (utils.py) and read_wave / _decode_pcm (audio_io.py) *)
(*                                                                           *)
(* A float sample x is the integer n with x = n / SampleDen, so x * 32767 is *)
(* n / SubSteps, a multiple of one quarter.  A file's sample data is a       *)
(* sequence of bytes.  A decoded sample is <<num, bits>>, the float          *)
(* num / 2^bits.                                                             *)

\* The factor of line 36, int16 = np.int16(chunk * 32767).
Int16Scale == 32767

\* Grid points of chunk * 32767 between two consecutive integers.
SubSteps == 4

SampleDen == SubSteps * Int16Scale

\* chunk_size of line 33, in frames (1_000_000 in the source, scaled down
\* with the signal lengths).
chunk_size == 2

\* Longest signal handed to save_wave, in frames.
MaxFrames == 3

\* Division rounding toward zero: the conversion of a float to an integer
\* type drops the fraction.
TruncDiv(n, d) == IF n >= 0 THEN n \div d ELSE -((-n) \div d)

\* np.clip(signal, -1.0, 1.0) on one sample.
ClipSample(n) == Max(-SampleDen, Min(n, SampleDen))

\* Fault variant: the samples are not clipped.
ClipNone(frames) == frames
\* Line 19, on every channel of every frame.
Clip(frames) ==
    [i \in 1..Len(frames) |->
        [c \in 1..Len(frames[i]) |-> ClipSample(frames[i][c])]]

\* The cast to a 16-bit integer keeps the low 16 bits of the truncated
\* value (two's complement).
Int16Cast(v) == ((v + 32768) % 65536) - 32768

\* Line 36 on one sample: np.int16(x * 32767), with x * 32767 = n / SubSteps.
Quantize(n) == Int16Cast(TruncDiv(n, SubSteps))

\* int16.tobytes() as stored in the file: little-endian two's complement.
Int16Bytes(v) == LET u == v % 65536 IN <<u % 256, u \div 256>>

RECURSIVE Flatten(_)
Flatten(ss) == IF ss = <<>> THEN <<>> ELSE Head(ss) \o Flatten(Tail(ss))

\* The bytes of one chunk: frames in order, channels interleaved.
ChunkBytes(chunk) ==
    Flatten([i \in 1..Len(chunk) |->
        Flatten([c \in 1..Len(chunk[i]) |-> Int16Bytes(Quantize(chunk[i][c]))])])

NoSignal == [ndim |-> 0, channels |-> 0, frames |-> <<>>]
NoFile == [nchannels |-> 0, sampwidth |-> 0, framerate |-> 0, data |-> <<>>,
           complete |-> FALSE]
NoDecoded == [kind |-> "none"]

\* Samples of the signals given to save_wave: zero, below one quantization
\* step, about one half, just below full scale, full scale, out of range.
SampleChoices ==
    {0, 1, -3, 65535, -65535, 131067, 131068, -131068, 131072, -131076, 400000}

StereoChoices ==
    {<<0, 131068>>, <<-65535, 131067>>, <<131072, -131076>>, <<1, -3>>}

\* Mono signals (n,), stereo signals (n, 2), and one array of three
\* dimensions, which save_wave rejects.
Signals ==
    {[ndim |-> 1, channels |-> 1, frames |-> [i \in 1..Len(m) |-> <<m[i]>>]] :
        m \in SeqsUpTo(SampleChoices, MaxFrames)}
    \cup {[ndim |-> 2, channels |-> 2, frames |-> f] :
             f \in SeqsUpTo(StereoChoices, MaxFrames)}
    \cup {[ndim |-> 3, channels |-> 1, frames |-> <<<<0>>>>]}

ByteChoices == {0, 1, 127, 128, 255}

\* Sample widths of a file not written by save_wave; wave.open accepts any
\* width of at least one byte.
SupportedWidths == {1, 2, 3, 4}
OtherWidths == {5, 8}

\* WAV files written by another program: one frame, every supported width
\* with every combination of the byte choices, two channels for the narrow
\* widths, an unsupported width, and a header with a zero sample width.
ExternalFiles ==
    UNION {{[nchannels |-> 1, sampwidth |-> w, framerate |-> 8000, data |-> d,
             complete |-> TRUE] : d \in [1..w -> ByteChoices]} :
               w \in SupportedWidths}
    \cup {[nchannels |-> 2, sampwidth |-> w, framerate |-> 8000, data |-> d,
           complete |-> TRUE] :
             w \in {1, 2}, d \in {<<0, 255, 128, 127>>, <<1, 128, 255, 255>>}}
    \cup {[nchannels |-> 1, sampwidth |-> w, framerate |-> 8000,
           data |-> [i \in 1..w |-> b], complete |-> TRUE] :
             w \in OtherWidths, b \in {0, 255}}
    \cup {[nchannels |-> 1, sampwidth |-> 0, framerate |-> 8000,
           data |-> <<>>, complete |-> TRUE]}

CodecIdle ==
    /\ cpc = "idle" /\ sig = NoSignal /\ clipped = <<>> /\ start = 0
    /\ wavfile = NoFile /\ decoded = NoDecoded

\* Either a signal is about to be saved (and read back), or a file written
\* elsewhere is about to be read.
CodecInit ==
    /\ clipped = <<>> /\ start = 0 /\ decoded = NoDecoded
    /\ \/ cpc = "save" /\ sig \in Signals /\ wavfile = NoFile
       \/ cpc = "read" /\ sig = NoSignal /\ wavfile \in ExternalFiles

\* save_wave lines 18-27: ensure_parent, the clip, the test of the shape.
SaveClip ==
    /\ cpc = "save"
    /\ clipped' = Clip(sig.frames)
    /\ cpc' = IF sig.ndim \in {1, 2} THEN "open" ELSE "raised"
    /\ UNCHANGED <<sig, start, wavfile, decoded>>

\* Lines 28-33: the file is created with its header; channels is 1 for a
\* one-dimensional signal, shape[1] otherwise.
SaveOpen ==
    /\ cpc = "open"
    /\ wavfile' = [nchannels |-> IF sig.ndim = 1 THEN 1
                                 ELSE sig.channels,
                   sampwidth |-> 2, framerate |-> 8000, data |-> <<>>,
                   complete |-> FALSE]
    /\ start' = 0
    /\ cpc' = "chunk"
    /\ UNCHANGED <<sig, clipped, decoded>>

\* Fault variant: the slice has no end, every iteration writes the frames
\* from start to the last one.
WriteChunkTail ==
    /\ cpc = "chunk"
    /\ start < Len(clipped)
    /\ wavfile' = [wavfile EXCEPT
                     !.data = @ \o ChunkBytes(SubSeq(clipped, start + 1,
                                                     Len(clipped)))]
    /\ start' = start + chunk_size
    /\ UNCHANGED <<cpc, sig, clipped, decoded>>
\* One iteration of the loop of lines 34-37.
WriteChunk ==
    /\ cpc = "chunk"
    /\ start < Len(clipped)
    /\ LET chunk == SubSeq(clipped, start + 1,
                           Min(start + chunk_size, Len(clipped)))
       IN  wavfile' = [wavfile EXCEPT !.data = @ \o ChunkBytes(chunk)]
    /\ start' = start + chunk_size
    /\ UNCHANGED <<cpc, sig, clipped, decoded>>

\* The loop is over: leaving the with block closes the file, which then
\* holds a complete header.
SaveClose ==
    /\ cpc = "chunk"
    /\ start >= Len(clipped)
    /\ wavfile' = [wavfile EXCEPT !.complete = TRUE]
    /\ cpc' = "read"
    /\ UNCHANGED <<sig, clipped, start, decoded>>

Raised(e) == [kind |-> "raised", error |-> e]

\* The little-endian unsigned value of the bytes bs.
RECURSIVE Unsigned(_)
Unsigned(bs) == IF bs = <<>> THEN 0 ELSE Head(bs) + 256 * Unsigned(Tail(bs))

\* Sample i (from 1) of raw for a width of w bytes.
SampleBytes(raw, w, i) == SubSeq(raw, (i - 1) * w + 1, i * w)

\* Fault variant: the 24-bit value is not sign-extended.
Decode24Unsigned(bs) == <<Unsigned(bs), 23>>
\* Lines 15-18: the three bytes are combined, 0x1000000 is subtracted
\* when bit 23 is set.
Decode24(bs) ==
    LET signed == Unsigned(bs)
    IN  <<IF (signed \div 8388608) % 2 = 1 THEN signed - 16777216 ELSE signed,
          23>>

\* One sample of lines 9-20 for a supported width.  The int16 and int32 views
\* of numpy read the top byte as signed.
DecodeSample(bs, w) ==
    LET top == IF bs[w] >= 128 THEN bs[w] - 256 ELSE bs[w]
    IN  CASE w = 1 -> <<bs[1] - 128, 7>>
          [] w = 2 -> <<bs[1] + 256 * top, 15>>
          [] w = 3 -> Decode24(bs)
          [] w = 4 -> <<Unsigned(SubSeq(bs, 1, 3)) + 16777216 * top, 31>>

\* Fault variant: an unknown width is read as 8-bit data.
decode_pcm_lenient(raw, w) ==
    IF w \in SupportedWidths /\ Len(raw) % w = 0
      THEN [kind |-> "ok",
            x |-> [i \in 1..(Len(raw) \div w) |->
                      DecodeSample(SampleBytes(raw, w, i), w)]]
      ELSE [kind |-> "ok", x |-> [i \in 1..Len(raw) |-> <<raw[i] - 128, 7>>]]
\* _decode_pcm: the decoded samples, or the ValueError of line 21 (and of
\* frombuffer / reshape for data that is not a whole number of samples).
decode_pcm(raw, w) ==
    IF w \notin SupportedWidths THEN Raised("ValueError")
    ELSE IF Len(raw) % w # 0 THEN Raised("ValueError")
    ELSE [kind |-> "ok",
          x |-> [i \in 1..(Len(raw) \div w) |->
                    DecodeSample(SampleBytes(raw, w, i), w)]]

\* np.clip(x, -1.0, 1.0) on the decoded sample num / 2^bits (2^31 itself is
\* written as twice 2^30).
ClipDecoded(v) ==
    LET half == 2 ^ (v[2] - 1)
    IN  <<Max((-half) * 2, IF v[2] < 31 THEN Min(v[1], 2 * half) ELSE v[1]),
          v[2]>>

\* read_wave lines 30-35: wave.open raises wave.Error on a header it
\* rejects (here: a zero sample width), else the whole data is read.
ReadOpen ==
    /\ cpc = "read"
    /\ IF wavfile.sampwidth = 0 \/ wavfile.nchannels = 0
         THEN /\ decoded' = Raised("wave.Error")
              /\ cpc' = "raised"
         ELSE /\ decoded' = NoDecoded
              /\ cpc' = "decode"
    /\ UNCHANGED <<sig, clipped, start, wavfile>>

\* Lines 37-40: decode, reshape to (n, nch) when nch > 1, clip, return.
ReadDecode ==
    /\ cpc = "decode"
    /\ LET r == decode_pcm(wavfile.data, wavfile.sampwidth)
           nch == wavfile.nchannels
       IN  IF r.kind = "raised"
             THEN decoded' = r /\ cpc' = "raised"
           ELSE IF Len(r.x) % nch # 0
             THEN decoded' = Raised("ValueError") /\ cpc' = "raised"
           ELSE /\ decoded' =
                     [kind |-> "ok", framerate |-> wavfile.framerate,
                      ndim |-> IF nch > 1 THEN 2 ELSE 1,
                      frames |-> [i \in 1..(Len(r.x) \div nch) |->
                                    [c \in 1..nch |->
                                        ClipDecoded(r.x[(i - 1) * nch + c])]]]
                /\ cpc' = "done"
    /\ UNCHANGED <<sig, clipped, start, wavfile>>

CodecStep ==
    SaveClip \/ SaveOpen \/ WriteChunk \/ SaveClose \/ ReadOpen \/ ReadDecode

-----------------------------------------------------------------------------
(* resample_linear (audio_io.py), fade and normalize (utils.py)              *)
(*                                                                           *)
(* One call per behaviour: dcall holds the function and its arguments, dret  *)
(* what it returned.  Samples are integers; a result carries the common      *)
(* denominator of its samples.  For normalize the amplitude unit is          *)
(* sqrt(1e-9), so the epsilon of line 58 is exactly 1 in squared units, and  *)
(* returned samples are given by their signed squares.                       *)

\* Longest argument of resample_linear and normalize, and of fade, in frames.
MaxDspLen == 3
MaxFadeLen == 5

\* 1e-9 of line 58, in squared amplitude units.
RmsEps == 1

NoCall == [fn |-> "none"]
NoRet == [kind |-> "none"]

\* Fault variant: positions as from linspace(..., endpoint=False).
OutPosOpen(j, n_out) == <<j - 1, n_out>>
\* x_out[j] of lines 65 and 70 as <<numerator, denominator>>, j from 1:
\* linspace(0, 1, num=n_out, endpoint=True); a single position is 0.
OutPos(j, n_out) == <<j - 1, Max(1, n_out - 1)>>

\* np.interp(x_out[j], x_in, column) times the denominator of the position,
\* with x_in = linspace(0, 1, num=n): the position falls at a * (n-1) / b
\* input steps from the first sample; beyond the last sample interp holds it.
Interp(column, pos) ==
    LET n == Len(column)
        a == pos[1]
        b == pos[2]
        idx == (a * (n - 1)) \div b
        r == (a * (n - 1)) % b
    IN  IF idx >= n - 1 THEN column[n] * b
        ELSE column[idx + 1] * (b - r) + column[idx + 2] * r

\* resample_linear(signal, sr_in, sr_out): the returned value with the
\* denominator of its samples.
resample_linear(s, sr_in, sr_out) ==
    IF sr_in = sr_out \/ Len(s.frames) < 2
      THEN [kind |-> "ok", ndim |-> s.ndim, channels |-> s.channels,
            den |-> 1, frames |-> s.frames]
      ELSE LET n_out == RoundHalfEven(Len(s.frames) * sr_out, sr_in)
           IN  [kind |-> "ok", ndim |-> s.ndim, channels |-> s.channels,
                den |-> OutPos(1, n_out)[2],
                frames |->
                  [j \in 1..n_out |->
                     [c \in 1..s.channels |->
                        Interp([i \in 1..Len(s.frames) |-> s.frames[i][c]],
                               OutPos(j, n_out))]]]

\* window[i] of line 45 times its denominator, i from 1: linspace(0, 1, n).
Window(i, n) == IF n = 1 THEN 0 ELSE i - 1

\* Fault variant: the guard only tests that one ramp fits.
fade_one_ramp(s, fade_q, sr) ==
    LET n == TruncDiv(fade_q * sr, 4)
        len == Len(s)
        w == Max(1, n - 1)
    IN  IF n = 0 \/ n > len THEN [kind |-> "ok", den |-> 1, samples |-> s]
        ELSE IF n < 0 THEN Raised("ValueError")
        ELSE [kind |-> "ok", den |-> w,
              samples |->
                [i \in 1..len |->
                   s[i] * (IF i <= n THEN Window(i, n) ELSE w)
                        * (IF i > len - n THEN Window(len - i + 1, n) ELSE w)]]
\* fade(signal, fade_time, sr) for fade_time = fade_q / 4 seconds: line 42
\* truncates the fade length n, line 43 is the guard, np.linspace raises on a
\* negative n, lines 46-48 apply the ramps to a copy.
fade(s, fade_q, sr) ==
    LET n == TruncDiv(fade_q * sr, 4)
        len == Len(s)
        w == Max(1, n - 1)
    IN  IF n = 0 \/ n * 2 > len THEN [kind |-> "ok", den |-> 1, samples |-> s]
        ELSE IF n < 0 THEN Raised("ValueError")
        ELSE [kind |-> "ok", den |-> w,
              samples |->
                [i \in 1..len |->
                   IF i <= n THEN s[i] * Window(i, n)
                   ELSE IF i > len - n THEN s[i] * Window(len - i + 1, n)
                   ELSE s[i] * w]]

\* np.dot(flat, flat), summed by halves.
RECURSIVE SumSq(_)
SumSq(flat) ==
    IF flat = <<>> THEN 0
    ELSE IF Len(flat) = 1 THEN flat[1] * flat[1]
    ELSE LET h == Len(flat) \div 2
         IN  SumSq(SubSeq(flat, 1, h)) + SumSq(SubSeq(flat, h + 1, Len(flat)))

Sign(x) == IF x < 0 THEN -1 ELSE IF x > 0 THEN 1 ELSE 0

\* 10 ** (target_db / 20), squared, as <<numerator, denominator>>.
TargetSq(target_db) ==
    CASE target_db = 0 -> <<1, 1>>
      [] target_db = -20 -> <<1, 100>>
      [] target_db = 20 -> <<100, 1>>
      [] target_db = -14 -> <<199, 5000>>
      [] target_db = -22 -> <<63, 10000>>

\* Fault variant: no epsilon under the root and no test of a zero rms.
normalize_unguarded(flat, target_db) ==
    IF Len(flat) = 0 THEN [kind |-> "ok", scaled |-> FALSE, den |-> 1,
                           samples |-> flat]
    ELSE IF SumSq(flat) = 0 THEN Raised("ZeroDivisionError")
    ELSE [kind |-> "ok", scaled |-> TRUE,
          den |-> TargetSq(target_db)[2] * SumSq(flat),
          samples |-> [i \in 1..Len(flat) |->
              Sign(flat[i]) * flat[i] * flat[i]
                  * TargetSq(target_db)[1] * Len(flat)]]
\* normalize(signal, target_db) on the flattened signal: rms squared is
\* (dot / size) + 1e-9, which is never 0, and every sample is multiplied by
\* target_linear / rms.  The returned samples are given by their signed
\* squares over den: x * |x| * target^2 / rms^2.
normalize(flat, target_db) ==
    LET size == Len(flat)
        rms2 == <<SumSq(flat) + RmsEps * size, size>>
        t2 == TargetSq(target_db)
    IN  IF size = 0 THEN [kind |-> "ok", scaled |-> FALSE, den |-> 1,
                          samples |-> flat]
        ELSE IF rms2[1] = 0 THEN [kind |-> "ok", scaled |-> FALSE, den |-> 1,
                                  samples |-> flat]
        ELSE [kind |-> "ok", scaled |-> TRUE, den |-> t2[2] * rms2[1],
              samples |-> [i \in 1..size |->
                  Sign(flat[i]) * flat[i] * flat[i] * t2[1] * rms2[2]]]

ResampleCalls ==
    [fn : {"resample_linear"},
     signal :
       {[ndim |-> 1, channels |-> 1, frames |-> [i \in 1..Len(m) |-> <<m[i]>>]] :
           m \in SeqsUpTo({0, 3, -6}, MaxDspLen)}
       \cup {[ndim |-> 2, channels |-> 2, frames |-> f] :
               f \in SeqsUpTo({<<3, -6>>, <<0, 12>>}, MaxDspLen)},
     sr_in : {1, 2, 3, 8}, sr_out : {1, 2, 3, 8}]

\* fade_time in quarters of a second.
FadeCalls ==
    [fn : {"fade"}, signal : SeqsUpTo({0, 4}, MaxFadeLen),
     fade_q : {-4, 0, 1, 3, 4, 6, 8}, sr : {1, 2, 3}]

NormalizeCalls ==
    [fn : {"normalize"},
     signal : SeqsUpTo({0, 1, -1, 3, -30}, MaxDspLen),
     target_db : {0, -20, 20}]

DspIdle == dpc = "idle" /\ dcall = NoCall /\ dret = NoRet

DspInit ==
    /\ dpc = "call"
    /\ dcall \in ResampleCalls \cup FadeCalls \cup NormalizeCalls
    /\ dret = NoRet

Resample ==
    /\ dpc = "call" /\ dcall.fn = "resample_linear"
    /\ dret' = resample_linear(dcall.signal, dcall.sr_in, dcall.sr_out)
    /\ dpc' = "returned"
    /\ UNCHANGED dcall

Fade ==
    /\ dpc = "call" /\ dcall.fn = "fade"
    /\ dret' = fade(dcall.signal, dcall.fade_q, dcall.sr)
    /\ dpc' = IF dret'.kind = "ok" THEN "returned" ELSE "raised"
    /\ UNCHANGED dcall

Normalize ==
    /\ dpc = "call" /\ dcall.fn = "normalize"
    /\ dret' = normalize(dcall.signal, dcall.target_db)
    /\ dpc' = IF dret'.kind = "ok" THEN "returned" ELSE "raised"
    /\ UNCHANGED dcall

DspStep == Resample \/ Fade \/ Normalize

-----------------------------------------------------------------------------
(* The master chain of mixdown_to_wav, lines 135-139                         *)
(*                                                                           *)
(* A sample of the mix is the integer k over kden, in units of 1 /           *)
(* MasterFull: the float k / (kden * MasterFull).  The samples normalize     *)
(* returns are irrational; the state keeps the samples it was given with     *)
(* the sum of squares and size that fix its gain, and the comparison of a    *)
(* returned sample with 1 is computed exactly from them.                     *)

\* Full scale (the float 1.0) in amplitude units.
MasterFull == 12

\* Longest mix, in frames.
MaxMixLen == 14

\* 1 / 1e-9, the epsilon of normalize (utils.py line 58).
EpsInv == 1000000000

\* fade_time=2.0 of lines 135-136, in quarters of a second.
MasterFadeQ == 8

\* target_db=-14.0 of line 138.
MasterTargetDb == -14

NoNorm == [scaled |-> FALSE, sumsq |-> 0, size |-> 0, full |-> MasterFull]

\* |x * (target_linear / rms)| > 1 for the sample x = k / nrm.full of the
\* signal normalize was given: k^2 * t^2 > sumsq / size + full^2 * 1e-9.
\* Both sides are brought to integers; the epsilon term, a fraction, is
\* exceeded by the integer difference exactly when its integer part is.
NormExceeds(k, nrm) ==
    /\ nrm.scaled
    /\ LET t2 == TargetSq(MasterTargetDb)
       IN  k * k * t2[1] * nrm.size - t2[2] * nrm.sumsq
             > (t2[2] * nrm.size * nrm.full * nrm.full) \div EpsInv

Column(frames, c) == [i \in 1..Len(frames) |-> frames[i][c]]

\* The mix of lines 128-132 as a buffer with one loud frame at position p
\* over a constant bed.
MixBuffers ==
    {[i \in 1..len |-> IF i = p THEN loud ELSE bed] :
        len \in 0..MaxMixLen, p \in 1..MaxMixLen,
        loud \in {<<12, 12>>, <<72, -12>>, <<18, 0>>},
        bed \in {<<0, 0>>, <<1, -1>>, <<12, -12>>}}

MasterIdle ==
    /\ kpc = "idle" /\ ksr = 1 /\ kmix = <<>> /\ kden = 1 /\ knorm = NoNorm
    /\ ksave = <<>>

\* State at line 135: any mix, at a sample rate of 1 or 2 Hz.
MasterInit ==
    /\ kpc = "fade" /\ ksr \in {1, 2} /\ kmix \in MixBuffers /\ kden = 1
    /\ knorm = NoNorm /\ ksave = <<>>

\* Lines 135-136: each channel is replaced by its fade.
MasterFade ==
    /\ kpc = "fade"
    /\ LET l == fade(Column(kmix, 1), MasterFadeQ, ksr)
           r == fade(Column(kmix, 2), MasterFadeQ, ksr)
       IN  /\ kmix' = [i \in 1..Len(kmix) |-> <<l.samples[i], r.samples[i]>>]
           /\ kden' = l.den
    /\ kpc' = "clip"
    /\ UNCHANGED <<ksr, knorm, ksave>>

\* Fault variant: the hard clip of line 137 is left out.
MasterClipSkipped ==
    /\ kpc = "clip"
    /\ kpc' = "normalize"
    /\ UNCHANGED <<ksr, kmix, kden, knorm, ksave>>
\* Line 137: np.clip(mix, -1.0, 1.0, out=mix).
MasterClip ==
    /\ kpc = "clip"
    /\ kmix' = [i \in 1..Len(kmix) |->
                  [c \in 1..2 |-> Max(-MasterFull * kden,
                                      Min(kmix[i][c], MasterFull * kden))]]
    /\ kpc' = "normalize"
    /\ UNCHANGED <<ksr, kden, knorm, ksave>>

\* Line 138: normalize(mix, target_db=-14.0).  An empty mix is returned as
\* it is; otherwise rms^2 = sumsq / size + 1e-9 is positive and every
\* sample is multiplied by target_linear / rms.
MasterNormalize ==
    /\ kpc = "normalize"
    /\ LET flat == Flatten(kmix)
       IN  knorm' = [scaled |-> Len(flat) > 0, sumsq |-> SumSq(flat),
                     size |-> Len(flat), full |-> MasterFull * kden]
    /\ kpc' = "save"
    /\ UNCHANGED <<ksr, kmix, kden, ksave>>

\* Line 139, save_wave's clip (utils.py line 19) on the normalized mix: a
\* sample beyond full scale is replaced by 1 or -1.
MasterSave ==
    /\ kpc = "save"
    /\ ksave' = [i \in 1..Len(kmix) |->
                   [c \in 1..2 |->
                      [k |-> kmix[i][c],
                       limited |-> NormExceeds(kmix[i][c], knorm)]]]
    /\ kpc' = "saved"
    /\ UNCHANGED <<ksr, kmix, kden, knorm>>

MasterStep == MasterFade \/ MasterClip \/ MasterNormalize \/ MasterSave

-----------------------------------------------------------------------------
(* The procedural generators: generate_music_bed (music.py) and              *)
(* generate_binaural_track (binaural.py)                                     *)
(*                                                                           *)
(* The oscillators' values do not bear on the shape of the arrays: every     *)
(* sample starts as Tone.  fade and normalize are the operators above, and   *)
(* the file is what save_wave's header calls and chunk loop leave behind:    *)
(* channels, sample width, frame rate and the number of frames written.      *)

\* "duration = max(60, duration_minutes * 60)"
MinDurationS == 60

MaxMinutes == 2

Tone == 2

\* Fault variant: no floor on the duration.
BedDurationNoFloor(duration_minutes) == duration_minutes * 60
\* music.py line 13, binaural.py line 21.
BedDuration(duration_minutes) == Max(MinDurationS, duration_minutes * 60)

\* music.py line 14, binaural.py line 22: n = int(sample_rate * duration).
BedLength(duration_minutes, sample_rate) ==
    sample_rate * BedDuration(duration_minutes)

\* fade_time in quarters of a second: 5.0 s for the music bed, 4.0 s for the
\* binaural track.
BedFadeQ(gen) == IF gen = "music" THEN 20 ELSE 16

\* target_db of the generator's normalize call.
BedTargetDb(gen) == IF gen = "music" THEN -20 ELSE -22

NoBedFile == [exists |-> FALSE]

NoStereo == [den |-> 1, frames |-> <<>>]

\* beat_hz is 0 where the generator has no such argument.
BedCalls ==
    [gen : {"music"}, duration_minutes : -1..MaxMinutes, sample_rate : {1, 2},
     beat_hz : {0}]
    \cup [gen : {"binaural"}, duration_minutes : -1..MaxMinutes,
          sample_rate : {1, 2}, beat_hz : {2, 6, 40}]

BedIdle ==
    /\ bpc = "idle" /\ bcall = NoCall /\ bleft = <<>> /\ bright = <<>>
    /\ bden = 1 /\ bstereo = NoStereo /\ bfile = NoBedFile

BedInit ==
    /\ bpc = "call" /\ bcall \in BedCalls /\ bleft = <<>> /\ bright = <<>>
    /\ bden = 1 /\ bstereo = NoStereo /\ bfile = NoBedFile

\* music.py lines 13-34, binaural.py lines 21-32: n samples per channel.
BedSynth ==
    /\ bpc = "call"
    /\ LET n == BedLength(bcall.duration_minutes, bcall.sample_rate)
       IN  /\ bleft' = [i \in 1..n |-> Tone]
           /\ bright' = [i \in 1..n |-> Tone]
    /\ bpc' = "fade"
    /\ UNCHANGED <<bcall, bden, bstereo, bfile>>

\* music.py lines 36-37, binaural.py lines 34-35.
BedFade ==
    /\ bpc = "fade"
    /\ LET l == fade(bleft, BedFadeQ(bcall.gen), bcall.sample_rate)
           r == fade(bright, BedFadeQ(bcall.gen), bcall.sample_rate)
       IN  /\ bleft' = l.samples
           /\ bright' = r.samples
           /\ bden' = l.den
    /\ bpc' = "normalize"
    /\ UNCHANGED <<bcall, bstereo, bfile>>

\* np.stack([left, right], axis=1), row-major.
StackFlat(l, r) ==
    [j \in 1..(2 * Len(l)) |-> IF j % 2 = 1 THEN l[(j + 1) \div 2]
                                             ELSE r[j \div 2]]

\* music.py lines 38-39, binaural.py lines 36-37: the stacked array keeps the
\* shape (n, 2) through normalize.
BedNormalize ==
    /\ bpc = "normalize"
    /\ LET nrm == normalize(StackFlat(bleft, bright), BedTargetDb(bcall.gen))
       IN  bstereo' =
             [den |-> nrm.den,
              frames |-> [i \in 1..(Len(nrm.samples) \div 2) |->
                            <<nrm.samples[2 * i - 1], nrm.samples[2 * i]>>]]
    /\ bpc' = "save"
    /\ UNCHANGED <<bcall, bleft, bright, bden, bfile>>

\* music.py line 41, binaural.py line 39, utils.py lines 20-37: channels is
\* shape[1], n is shape[0], the width is 2 bytes and the loop writes the n
\* frames.
BedSave ==
    /\ bpc = "save"
    /\ bfile' = [exists |-> TRUE, nchannels |-> 2, sampwidth |-> 2,
                 framerate |-> bcall.sample_rate,
                 nframes |-> Len(bstereo.frames)]
    /\ bpc' = "saved"
    /\ UNCHANGED <<bcall, bleft, bright, bden, bstereo>>

BedStep == BedSynth \/ BedFade \/ BedNormalize \/ BedSave

-----------------------------------------------------------------------------
(* Two concurrent calls of mixdown_to_wav (mixdown.py lines 61-140)          *)
(*                                                                           *)
(* The calls run in two threads or processes; a step of the model is one     *)
(* access to the file system, or the numeric part of a call, which touches   *)
(* nothing but the call's own arrays.  Stem files hold abstract contents;    *)
(* the mix a call computes is a function of the three arrays it decoded and  *)
(* of its settings.  No other process writes the stems here.                 *)

Calls == {1, 2}

StemPaths == {"voice_a", "voice_b", "music", "binaural"}

\* The arrays of a call that has decoded nothing yet.
NoArrays == [v |-> "none", m |-> "none", b |-> "none"]

NoMix == [kind |-> "none"]

\* An output path: nothing there, a file of an earlier run, a file opened by
\* save_wave whose frames are not all written.
AbsentOut == [kind |-> "absent"]
OldOut == [kind |-> "old"]
PartialOut == [kind |-> "partial"]

\* What lines 88-138 make of the decoded arrays under the settings.
MixOf(arrays, settings) ==
    [kind |-> "mix", of |-> arrays, settings |-> settings]

\* Fault variant: the decoded arrays are kept in one module-level buffer.
FrameShared(c) == 1
\* The local variables of call c live in the frame of call c.
Frame(c) == c

\* out_wav of call c, and its parent directory.
OutPath(c) == c
ParentOf(c) == IF qsamedir \/ OutPath(c) = 1 THEN "run" ELSE "other"

ParIdle ==
    /\ qpc = [c \in Calls |-> "idle"]
    /\ qvoice = [c \in Calls |-> "voice_a"]
    /\ qsettings = [c \in Calls |-> "default"]
    /\ qsamedir = FALSE
    /\ qstems = [p \in StemPaths |-> "none"]
    /\ qstems0 = qstems
    /\ qdirs = {}
    /\ qarrays = [c \in Calls |-> NoArrays]
    /\ qmix = [c \in Calls |-> NoMix]
    /\ qout = [c \in Calls |-> AbsentOut]

\* Both calls are about to start; the stems are on disk, the second call may
\* take the same voice stem as the first or another one.
ParInit ==
    /\ qpc = [c \in Calls |-> "ensure"]
    /\ qvoice \in [Calls -> {"voice_a", "voice_b"}]
    /\ qvoice[1] = "voice_a"
    /\ qsettings \in [Calls -> {"default", "custom"}]
    /\ qsamedir \in BOOLEAN
    /\ qstems \in {[voice_a |-> "v1", voice_b |-> vb, music |-> "m1",
                    binaural |-> "b1"] : vb \in {"v1", "v2"}}
    /\ qstems0 = qstems
    /\ qdirs \in {{}, {"run"}}
    /\ qarrays = [c \in Calls |-> NoArrays]
    /\ qmix = [c \in Calls |-> NoMix]
    /\ qout \in [Calls -> {AbsentOut, OldOut}]

\* Line 70: ensure_parent(out_wav), mkdir with exist_ok.
ParEnsure(c) ==
    /\ qpc[c] = "ensure"
    /\ qdirs' = qdirs \cup {ParentOf(c)}
    /\ qpc' = [qpc EXCEPT ![c] = "wait"]
    /\ UNCHANGED <<qvoice, qsettings, qsamedir, qstems, qstems0, qarrays,
                   qmix, qout>>

\* Lines 73-82: the stems exist and the voice decodes, the wait breaks.
ParWait(c) ==
    /\ qpc[c] = "wait"
    /\ qpc' = [qpc EXCEPT ![c] = "load_v"]
    /\ UNCHANGED <<qvoice, qsettings, qsamedir, qstems, qstems0, qdirs,
                   qarrays, qmix, qout>>

\* Line 84: read_wave_mono(voice_wav) opens the file for reading only.
ParLoadVoice(c) ==
    /\ qpc[c] = "load_v"
    /\ qarrays' = [qarrays EXCEPT ![Frame(c)].v = qstems[qvoice[c]]]
    /\ qpc' = [qpc EXCEPT ![c] = "load_m"]
    /\ UNCHANGED <<qvoice, qsettings, qsamedir, qstems, qstems0, qdirs, qmix,
                   qout>>

\* Line 85.
ParLoadMusic(c) ==
    /\ qpc[c] = "load_m"
    /\ qarrays' = [qarrays EXCEPT ![Frame(c)].m = qstems["music"]]
    /\ qpc' = [qpc EXCEPT ![c] = "load_b"]
    /\ UNCHANGED <<qvoice, qsettings, qsamedir, qstems, qstems0, qdirs, qmix,
                   qout>>

\* Line 86.
ParLoadBinaural(c) ==
    /\ qpc[c] = "load_b"
    /\ qarrays' = [qarrays EXCEPT ![Frame(c)].b = qstems["binaural"]]
    /\ qpc' = [qpc EXCEPT ![c] = "compute"]
    /\ UNCHANGED <<qvoice, qsettings, qsamedir, qstems, qstems0, qdirs, qmix,
                   qout>>

\* Lines 88-138: every array is a local of the call (normalize and the
\* ducking multiply in place, on arrays the call made itself).
ParCompute(c) ==
    /\ qpc[c] = "compute"
    /\ qmix' = [qmix EXCEPT ![c] = MixOf(qarrays[Frame(c)], qsettings[c])]
    /\ qpc' = [qpc EXCEPT ![c] = "open"]
    /\ UNCHANGED <<qvoice, qsettings, qsamedir, qstems, qstems0, qdirs,
                   qarrays, qout>>

\* Line 139, utils.py lines 18 and 28: the output is created or truncated.
ParOpen(c) ==
    /\ qpc[c] = "open"
    /\ qdirs' = qdirs \cup {ParentOf(c)}
    /\ qout' = [qout EXCEPT ![OutPath(c)] = PartialOut]
    /\ qpc' = [qpc EXCEPT ![c] = "write"]
    /\ UNCHANGED <<qvoice, qsettings, qsamedir, qstems, qstems0, qarrays,
                   qmix>>

\* utils.py lines 34-37 and the close: the frames of the mix are on disk.
ParWrite(c) ==
    /\ qpc[c] = "write"
    /\ qout' = [qout EXCEPT ![OutPath(c)] = qmix[c]]
    /\ qpc' = [qpc EXCEPT ![c] = "done"]
    /\ UNCHANGED <<qvoice, qsettings, qsamedir, qstems, qstems0, qdirs,
                   qarrays, qmix>>

ParStep ==
    \E c \in Calls :
        \/ ParEnsure(c) \/ ParWait(c)
        \/ ParLoadVoice(c) \/ ParLoadMusic(c) \/ ParLoadBinaural(c)
        \/ ParCompute(c) \/ ParOpen(c) \/ ParWrite(c)

-----------------------------------------------------------------------------
(* _pick_binaural_band_and_beat (api.py lines 105-154)                       *)
(*                                                                           *)
(* Frequencies are in tenths of a hertz.  A request is the three fields of   *)
(* GenerationRequest the function reads; "missing" is an objectif the enum   *)
(* does not hold, as only an unvalidated caller can pass.                    *)

Objectifs == {"sommeil", "stress", "confiance", "performance", "douleur"}

BinauralBands == {"auto", "delta", "theta", "alpha", "beta", "gamma"}

\* binaural_beat_hz: Field(default=0.0, ge=0.0, le=80.0).
BeatChoices == {0, 1, 45, 800}

PickRequests ==
    [objectif : Objectifs \cup {"missing"}, binaural_band : BinauralBands,
     binaural_beat_hz : BeatChoices]

\* Lines 128-134.
band_to_beat ==
    [delta |-> 20, theta |-> 60, alpha |-> 100, beta |-> 180, gamma |-> 400]

\* Fault variant: a beat of 0 counts as an override.
BeatOverridesLoose(beat_override) == beat_override >= 0
\* Line 120: "if beat_override > 0.0".
BeatOverrides(beat_override) == beat_override > 0

\* Lines 140-154: the band of an objective, theta when none matches.
ObjectiveBand(obj_value) ==
    CASE obj_value = "sommeil" -> "delta"
      [] obj_value = "stress" -> "alpha"
      [] obj_value = "confiance" -> "alpha"
      [] obj_value = "performance" -> "gamma"
      [] obj_value = "douleur" -> "delta"
      [] OTHER -> "theta"

\* Lines 119-154.  With an override the band is str(request.binaural_band).
pick_binaural_band_and_beat(request) ==
    IF BeatOverrides(request.binaural_beat_hz)
      THEN [band |-> "BinauralBand." \o request.binaural_band,
            beat |-> request.binaural_beat_hz]
    ELSE IF request.binaural_band \in DOMAIN band_to_beat
      THEN [band |-> request.binaural_band,
            beat |-> band_to_beat[request.binaural_band]]
    ELSE [band |-> ObjectiveBand(request.objectif),
          beat |-> band_to_beat[ObjectiveBand(request.objectif)]]

NoRequest == [objectif |-> "none"]

NoPick == [band |-> "none", beat |-> 0]

PickIdle == hpc = "idle" /\ hreq = NoRequest /\ hret = NoPick

PickInit == hpc = "call" /\ hreq \in PickRequests /\ hret = NoPick

\* api.py line 1229: generate calls the function on its request.
Pick ==
    /\ hpc = "call"
    /\ hret' = pick_binaural_band_and_beat(hreq)
    /\ hpc' = "returned"
    /\ UNCHANGED hreq

-----------------------------------------------------------------------------
(* synthesize_tts_cached (tts.py lines 269-367) and its call in generate     *)
(* (api.py lines 1202-1212)                                                  *)
(*                                                                           *)
(* A provider call either writes a WAV at output_path or raises.  Lines      *)
(* 333-367 of tts.py are one string literal: the statements in it, the       *)
(* cache write and the final return, are not executed.                       *)

TtsProviders == {"local", "elevenlabs"}

\* A file: absent, or a WAV with the given origin.
NoWav == [exists |-> FALSE, wav |-> "none"]
Wav(origin) == [exists |-> TRUE, wav |-> origin]

\* Python's None and the tuple of a return statement.
PyNone == [kind |-> "None"]
Triple(cache_hit, provider_used, error) ==
    [kind |-> "tuple", cache_hit |-> cache_hit,
     provider_used |-> provider_used, error |-> error]

NotReturned == [kind |-> "none"]

TtsCalls == [provider : TtsProviders, base_dir : {"None", "given"}]

TtsIdle ==
    /\ tpc = "idle" /\ tcall = [provider |-> "none", base_dir |-> "None"]
    /\ tcache = [k \in TtsProviders |-> NoWav] /\ tout = NoWav
    /\ tused = "none" /\ terror = "None"
    /\ tret = NotReturned

\* tts_cache_key, lines 260-266: the text and the voice being the same, the
\* key tells the providers apart.
tts_cache_key(provider) == provider

\* generate calls with the request's provider; the cache may hold voices of
\* earlier runs, output_path may hold an older file.
TtsInit ==
    /\ tpc = "cache"
    /\ tcall \in TtsCalls
    /\ tcache \in [TtsProviders -> {NoWav, Wav("cached")}]
    /\ tout \in {NoWav, Wav("old")}
    /\ tused = tcall.provider
    /\ terror = "None"
    /\ tret = NotReturned

\* Lines 296-305: a cache hit copies the cached file and returns.
TtsCache ==
    /\ tpc = "cache"
    /\ IF /\ tcall.base_dir = "given"
          /\ tcache[tts_cache_key(tcall.provider)].exists
         THEN /\ tout' = tcache[tts_cache_key(tcall.provider)]
              /\ tret' = Triple(TRUE, tused, "None")
              /\ tpc' = "returned"
         ELSE /\ tpc' = "synth"
              /\ UNCHANGED <<tout, tret>>
    /\ UNCHANGED <<tcall, tcache, tused, terror>>

\* Lines 307-320: the requested provider synthesizes.
TtsSynth ==
    /\ tpc = "synth"
    /\ tout' = Wav(tcall.provider)
    /\ tused' = IF tcall.provider = "elevenlabs" THEN tused ELSE "local"
    /\ tpc' = "end"
    /\ UNCHANGED <<tcall, tcache, terror, tret>>

\* Lines 321-324: the provider raised (no key, network, quota, disk).
TtsSynthRaises ==
    /\ tpc = "synth"
    /\ terror' = "str(e)"
    /\ tpc' = "fallback"
    /\ UNCHANGED <<tcall, tcache, tout, tused, tret>>

\* Lines 327-329: the local fallback synthesizes.
TtsFallback ==
    /\ tpc = "fallback"
    /\ tout' = Wav("local")
    /\ tused' = "local_fallback"
    /\ tpc' = "end"
    /\ UNCHANGED <<tcall, tcache, terror, tret>>

\* Lines 330-332: the fallback raised as well, the exception leaves the
\* function.
TtsFallbackRaises ==
    /\ tpc = "fallback"
    /\ tpc' = "raised"
    /\ UNCHANGED <<tcall, tcache, tout, tused, terror, tret>>

\* Lines 333-367: the string literal is evaluated and dropped, the body ends
\* without a return statement, the call evaluates to None.
TtsEnd ==
    /\ tpc = "end"
    /\ tret' = PyNone
    /\ tpc' = "returned"
    /\ UNCHANGED <<tcall, tcache, tout, tused, terror>>

\* api.py line 1206: "cache_hit, tts_provider_used, tts_err = ..." unpacks a
\* tuple and raises TypeError on None.
TtsUnpack ==
    /\ tpc = "returned"
    /\ tpc' = IF tret.kind = "tuple" THEN "unpacked" ELSE "TypeError"
    /\ UNCHANGED <<tcall, tcache, tout, tused, terror, tret>>

\* api.py lines 1213-1225: tts_meta.json is written, the request goes on to
\* the music bed.
TtsMeta ==
    /\ tpc = "unpacked"
    /\ tpc' = "music"
    /\ UNCHANGED <<tcall, tcache, tout, tused, terror, tret>>

TtsStep ==
    \/ TtsCache \/ TtsSynth \/ TtsSynthRaises \/ TtsFallback
    \/ TtsFallbackRaises \/ TtsEnd \/ TtsUnpack \/ TtsMeta

-----------------------------------------------------------------------------
(* The scan of wav_stats (audio_stats.py lines 70-143) on an opened file     *)
(*                                                                           *)
(* The file is not changed during the scan.  Its header gives channels,      *)
(* sample width (1 to 4 bytes, line 59 has passed), frame rate (wave.open    *)
(* accepts 0) and the number of frames the data chunk announces; its data    *)
(* may stop short of that.  max_seconds is in quarters of a second.  A       *)
(* decoded sample is <<num, bits>> as in the codec; after the downmix a      *)
(* value is an integer in units of 1 / (channels * 2^bits).                  *)

\* "chunk_frames = 1_000_000"
chunk_frames == 2

MaxScanFrames == 3

\* The bytes of one sample of width w: pattern 0 is silence, the others are
\* 3, -1 and a larger negative value.
Cell(w, k) ==
    [i \in 1..w |->
        CASE k = 0 -> IF w = 1 THEN 128 ELSE 0
          [] k = 1 -> IF w = 1 THEN 131 ELSE IF i = 1 THEN 3 ELSE 0
          [] k = 2 -> IF w = 1 THEN 127 ELSE 255
          [] OTHER -> IF w = 1 THEN 28 ELSE IF i = 1 THEN 0 ELSE 255]

\* The data of a file: count samples of a tone or of silence, the last cut
\* bytes missing.
ScanData(w, count, tone, cut) ==
    LET full == Flatten([j \in 1..count |-> Cell(w, IF tone THEN j % 4 ELSE 0)])
    IN  SubSeq(full, 1, Max(0, Len(full) - cut))

ScanFiles ==
    {[nchannels |-> nch, sampwidth |-> w, framerate |-> rate, nframes |-> nf,
      data |-> ScanData(w, nf * nch, tone, cut)] :
        nch \in {1, 2}, w \in SupportedWidths, rate \in {0, 1, 2},
        nf \in 0..MaxScanFrames, tone \in BOOLEAN, cut \in {0, 1, 2}}

\* max_seconds: None, or a number of quarter seconds.
NoLimit == [given |-> FALSE, q |-> 0]
ScanLimits == {NoLimit} \cup [given : {TRUE}, q : {-4, 0, 2, 4, 8}]

\* Lines 70-72.
frames_to_read(file, max_seconds) ==
    IF max_seconds.given /\ file.framerate > 0
      THEN Min(file.nframes, TruncDiv(max_seconds.q * file.framerate, 4))
      ELSE file.nframes

\* Fault variant: the whole remainder is read at once.
ChunkAll(remaining) == remaining
\* Line 82: n = min(chunk_frames, remaining).
ChunkOf(remaining) == Min(chunk_frames, remaining)

\* wf.readframes(n) at byte position pos: at most n frames, fewer when the
\* data ends.
readframes(file, pos, n) ==
    SubSeq(file.data, pos + 1,
           Min(pos + n * file.nchannels * file.sampwidth, Len(file.data)))

\* Fault variant: 8-bit samples are read as signed offsets from 0.
StatsDecode8Unsigned(byte) == <<byte, 7>>
\* Lines 89-90: (x - 128.0) / 128.0.
StatsDecode8(byte) == <<byte - 128, 7>>

\* The signed value of a little-endian byte string of at most 4 bytes.
SignedLE(bs) ==
    LET w == Len(bs)
        top == IF bs[w] >= 128 THEN bs[w] - 256 ELSE bs[w]
    IN  Unsigned(SubSeq(bs, 1, w - 1)) + top * (2 ^ (8 * (w - 1)))

\* Lines 88-99, the decoder inside the scan: np.frombuffer and reshape raise
\* ValueError on data that is not a whole number of samples.
stats_decode(raw, sw) ==
    IF Len(raw) % sw # 0 THEN Raised("ValueError")
    ELSE [kind |-> "ok",
          x |-> [i \in 1..(Len(raw) \div sw) |->
                   LET bs == SubSeq(raw, (i - 1) * sw + 1, i * sw)
                   IN  IF sw = 1 THEN StatsDecode8(bs[1])
                       ELSE IF sw = 2 THEN <<SignedLE(bs), 15>>
                       ELSE IF sw = 3 THEN <<SignedLE(bs), 23>>
                       ELSE <<SignedLE(bs), 31>>]]

\* Lines 105-110: the mean over the channels of each frame; when the reshape
\* fails the samples are kept as they are.
Downmix(nums, nch) ==
    IF nch > 1 /\ Len(nums) % nch = 0
      THEN [f \in 1..(Len(nums) \div nch) |->
              nums[(f - 1) * nch + 1] + nums[(f - 1) * nch + 2]]
      ELSE [i \in 1..Len(nums) |-> nch * nums[i]]

\* ax.max(initial=0.0)
RECURSIVE MaxAbs(_)
MaxAbs(xs) == IF xs = <<>> THEN 0 ELSE Max(Abs(Head(xs)), MaxAbs(Tail(xs)))

\* The argument of 20 * log10 in lines 130-131:
\* max(sqrt(sq + eps * 1e-12), 1e-12) for the rational sq = <<num, den>>;
\* floored tells that the max took 1e-12, which gives -240 dBFS.
Log10Arg(sq, eps) ==
    [sq |-> sq, eps |-> eps, floored |-> sq[1] = 0 /\ eps = 0]

NoLevel == [sq |-> <<0, 1>>, eps |-> 0, floored |-> FALSE]

NoScanFile ==
    [nchannels |-> 1, sampwidth |-> 1, framerate |-> 0, nframes |-> 0,
     data |-> <<>>]

NoScanStats == [kind |-> "none"]

\* The WavStats of lines 120-128, 133-143 and 145.
ScanStats(file, peak_dbfs, rms_dbfs, error) ==
    [kind |-> "WavStats", exists |-> TRUE, sample_rate |-> file.framerate,
     channels |-> file.nchannels, frames |-> file.nframes,
     peak_dbfs |-> peak_dbfs, rms_dbfs |-> rms_dbfs, error |-> error]

ScanIdle ==
    /\ spc = "idle" /\ sfile = NoScanFile /\ smax = NoLimit
    /\ sremaining = 0 /\ spos = 0 /\ sn = 0 /\ sraw = <<>>
    /\ sx = NoDecoded /\ speak = 0 /\ ssumsq = 0 /\ scount = 0
    /\ sres = NoScanStats

\* State at line 70: a file of a supported width is open.
ScanInit ==
    /\ spc = "start" /\ sfile \in ScanFiles /\ smax \in ScanLimits
    /\ sremaining = 0 /\ spos = 0 /\ sn = 0 /\ sraw = <<>>
    /\ sx = NoDecoded /\ speak = 0 /\ ssumsq = 0 /\ scount = 0
    /\ sres = NoScanStats

\* Lines 70-80.
ScanStart ==
    /\ spc = "start"
    /\ sremaining' = frames_to_read(sfile, smax)
    /\ spc' = "loop"
    /\ UNCHANGED <<sfile, smax, spos, sn, sraw, sx, speak, ssumsq, scount,
                   sres>>

\* One iteration of the loop, lines 81-116: it ends at a break (no data),
\* in the handler (ValueError of the decoder), or with the chunk added to
\* the statistics and remaining lowered by n.  n, raw and the decoded chunk
\* are the locals of one iteration.
ScanIter ==
    /\ spc = "loop"
    /\ sremaining > 0
    /\ \E n \in {ChunkOf(sremaining)} :
       \E raw \in {readframes(sfile, spos, n)} :
       \E dec \in {stats_decode(raw, sfile.sampwidth)} :
       LET xs == Downmix([i \in 1..Len(dec.x) |-> dec.x[i][1]],
                         sfile.nchannels)
       IN  /\ sn' = n
           /\ sraw' = raw
           /\ spos' = spos + Len(raw)
           /\ IF raw = <<>>
                THEN /\ spc' = "finish"
                     /\ UNCHANGED <<sx, speak, ssumsq, scount, sremaining>>
              ELSE IF dec.kind = "raised"
                THEN /\ spc' = "handler"
                     /\ sx' = dec
                     /\ UNCHANGED <<speak, ssumsq, scount, sremaining>>
              ELSE /\ spc' = "loop"
                   /\ sx' = dec
                   /\ speak' = Max(speak, MaxAbs(xs))
                   /\ ssumsq' = ssumsq + SumSq(xs)
                   /\ scount' = scount + Len(xs)
                   /\ sremaining' = sremaining - n
    /\ UNCHANGED <<sfile, smax, sres>>

\* The loop is over (remaining <= 0 or a break).  Lines 118-143: no level
\* without a decoded sample; rms = sqrt(sumsq / count + 1e-12), then the two
\* levels.
ScanFinish ==
    /\ spc = "finish" \/ (spc = "loop" /\ sremaining <= 0)
    /\ sres' = IF scount <= 0
                 THEN ScanStats(sfile, NoLevel, NoLevel, "No frames decoded")
                 ELSE ScanStats(sfile, Log10Arg(<<speak * speak, 1>>, 0),
                                Log10Arg(<<ssumsq, scount>>, 1), "None")
    /\ spc' = "returned"
    /\ UNCHANGED <<sfile, smax, sremaining, spos, sn, sraw, sx, speak, ssumsq,
                   scount>>

\* Line 145: the exception becomes the error of the record.
ScanHandler ==
    /\ spc = "handler"
    /\ sres' = ScanStats(sfile, NoLevel, NoLevel, "exception")
    /\ spc' = "returned"
    /\ UNCHANGED <<sfile, smax, sremaining, spos, sn, sraw, sx, speak, ssumsq,
                   scount>>

ScanStep == ScanStart \/ ScanIter \/ ScanFinish \/ ScanHandler

-----------------------------------------------------------------------------
(* Specifications                                                            *)

firstVars == <<genVars, statVars, mixVars, envVars, codecVars, dspVars,
               masterVars>>
laterVars == <<bedVars, parVars, pickVars, ttsVars, scanVars>>

FirstIdle ==
    /\ GenIdle /\ StatIdle /\ MixIdle /\ EnvIdle /\ CodecIdle /\ DspIdle
    /\ MasterIdle

\* The later groups: group g starts a call, the others are idle.
LaterInit(g) ==
    /\ IF g = "bed" THEN BedInit ELSE BedIdle
    /\ IF g = "par" THEN ParInit ELSE ParIdle
    /\ IF g = "pick" THEN PickInit ELSE PickIdle
    /\ IF g = "tts" THEN TtsInit ELSE TtsIdle
    /\ IF g = "scan" THEN ScanInit ELSE ScanIdle

LaterIdle == LaterInit("none")

vars == <<firstVars, laterVars>>

Init ==
    /\ GenInit /\ StatIdle /\ MixIdle /\ EnvIdle /\ CodecIdle /\ DspIdle
    /\ MasterIdle /\ LaterIdle

Next ==
    \/ (GenStep /\ UNCHANGED <<statVars, mixVars, envVars, codecVars, dspVars,
                               masterVars, laterVars>>)
    \/ (FileChange /\ UNCHANGED <<statVars, mixVars, envVars, codecVars,
                                  dspVars, masterVars, laterVars>>)

Spec == Init /\ [][Next]_vars

\* The request's thread keeps running: a sleep returns, a decode ends.
FairSpec ==
    Spec /\ WF_vars(GenStep /\ UNCHANGED <<statVars, mixVars, envVars,
                                           codecVars, dspVars, masterVars,
                                           laterVars>>)

InitStats ==
    /\ GenIdle /\ StatInit /\ MixIdle /\ EnvIdle /\ CodecIdle /\ DspIdle
    /\ MasterIdle /\ LaterIdle

NextStats ==
    \/ (StatStep /\ UNCHANGED <<genVars, mixVars, envVars, codecVars, dspVars,
                                masterVars, laterVars>>)
    \/ (WFileChange /\ UNCHANGED <<genVars, mixVars, envVars, codecVars,
                                   dspVars, masterVars, laterVars>>)

SpecStats == InitStats /\ [][NextStats]_vars

InitMix ==
    /\ GenIdle /\ StatIdle /\ MixInit /\ EnvIdle /\ CodecIdle /\ DspIdle
    /\ MasterIdle /\ LaterIdle

NextMix ==
    MixStep /\ UNCHANGED <<genVars, statVars, envVars, codecVars, dspVars,
                           masterVars, laterVars>>

SpecMix == InitMix /\ [][NextMix]_vars

InitEnv ==
    /\ GenIdle /\ StatIdle /\ EnvInit /\ CodecIdle /\ DspIdle /\ MasterIdle
    /\ LaterIdle

NextEnv ==
    EnvLoop /\ UNCHANGED <<genVars, statVars, codecVars, dspVars, masterVars,
                           laterVars>>

\* The loop runs on while the voice has samples.
SpecEnv == InitEnv /\ [][NextEnv]_vars /\ WF_vars(NextEnv)

InitCodec ==
    /\ GenIdle /\ StatIdle /\ MixIdle /\ EnvIdle /\ CodecInit /\ DspIdle
    /\ MasterIdle /\ LaterIdle

NextCodec ==
    CodecStep /\ UNCHANGED <<genVars, statVars, mixVars, envVars, dspVars,
                             masterVars, laterVars>>

SpecCodec == InitCodec /\ [][NextCodec]_vars

InitDsp ==
    /\ GenIdle /\ StatIdle /\ MixIdle /\ EnvIdle /\ CodecIdle /\ DspInit
    /\ MasterIdle /\ LaterIdle

NextDsp ==
    DspStep /\ UNCHANGED <<genVars, statVars, mixVars, envVars, codecVars,
                           masterVars, laterVars>>

SpecDsp == InitDsp /\ [][NextDsp]_vars

InitMaster ==
    /\ GenIdle /\ StatIdle /\ MixIdle /\ EnvIdle /\ CodecIdle /\ DspIdle
    /\ MasterInit /\ LaterIdle

NextMaster ==
    MasterStep /\ UNCHANGED <<genVars, statVars, mixVars, envVars, codecVars,
                              dspVars, laterVars>>

SpecMaster == InitMaster /\ [][NextMaster]_vars

InitBed == FirstIdle /\ LaterInit("bed")

NextBed == BedStep /\ UNCHANGED <<firstVars, parVars, pickVars, ttsVars, scanVars>>

SpecBed == InitBed /\ [][NextBed]_vars

InitPar == FirstIdle /\ LaterInit("par")

NextPar == ParStep /\ UNCHANGED <<firstVars, bedVars, pickVars, ttsVars, scanVars>>

SpecPar == InitPar /\ [][NextPar]_vars

InitPick == FirstIdle /\ LaterInit("pick")

NextPick == Pick /\ UNCHANGED <<firstVars, bedVars, parVars, ttsVars, scanVars>>

SpecPick == InitPick /\ [][NextPick]_vars

InitTts == FirstIdle /\ LaterInit("tts")

NextTts == TtsStep /\ UNCHANGED <<firstVars, bedVars, parVars, pickVars, scanVars>>

SpecTts == InitTts /\ [][NextTts]_vars

InitScan == FirstIdle /\ LaterInit("scan")

NextScan == ScanStep /\ UNCHANGED <<firstVars, bedVars, parVars, pickVars, ttsVars>>

SpecScan == InitScan /\ [][NextScan]_vars

\* The scan runs on: wav_stats is a synchronous call.
FairSpecScan == SpecScan /\ WF_vars(NextScan)

-----------------------------------------------------------------------------
(* Properties                                                                *)

InWait == pc \in {"poll", "probe"}
WaitBreaks == waitEnd = "none" /\ waitEnd' = "break"

\* C1 (as stated): the availability wait ends early (by break) only in a state
\* where all three stem files exist and each of the three decodes.
C1_BreakOnlyWhenAllDecode ==
    [][WaitBreaks => \A s \in Stems : Exists(s) /\ Decodes(s)]_vars

\* C1 (amended): the wait ends by break only in an attempt whose existence
\* test found all three stem files and whose trial decode of the voice stem
\* succeeded; every other attempt sleeps once and the loop goes on to its
\* next attempt, or to the decode step after the 40th.
C1_BreakOnlyWhenVoiceDecodes ==
    [][/\ WaitBreaks => (seen = Stems /\ Decodes("voice"))
       /\ (InWait /\ pc' # pc /\ pc' # "probe" /\ ~WaitBreaks)
            => /\ sleeps' = sleeps + 1
               /\ attempt' = attempt + 1
               /\ (seen' # Stems \/ ~Decodes("voice"))
               /\ IF attempt' < WaitAttempts
                    THEN pc' = "poll" ELSE pc' = "load_v"]_vars

\* The wait broke at a later attempt, after sleeping, while the music stem
\* was present but not decodable.
C1_Witness ==
    /\ pc = "load_v" /\ waitEnd = "break" /\ attempt >= 2 /\ sleeps = attempt
    /\ files["music"] = "bad"

\* C2: the availability wait always terminates: at most 40 attempts, at most
\* one sleep per attempt, and control always goes on to the decode step,
\* whatever happens to the stem files.
C2_WaitTerminates ==
    /\ [](attempt <= WaitAttempts /\ sleeps <= attempt)
    /\ (InWait ~> pc = "load_v")

\* All 40 attempts slept and the decode step was reached with a stem missing.
C2_Witness ==
    /\ pc = "load_v" /\ waitEnd = "exhausted"
    /\ attempt = WaitAttempts /\ sleeps = WaitAttempts
    /\ files["voice"] = "absent"

LoadFails ==
    \/ pc = "load_v" /\ ~Decodes("voice") /\ pc' # pc
    \/ pc = "load_m" /\ ~Decodes("music") /\ pc' # pc
    \/ pc = "load_b" /\ ~Decodes("binaural") /\ pc' # pc

\* C3: a stem that is missing or does not decode after the wait makes
\* mixdown_to_wav raise the decode error; the call then never reaches
\* save_wave and the output file is neither created nor overwritten.
C3_DecodeErrorLeavesOutput ==
    /\ [][LoadFails => (pc' = "md_raised" /\ err' = "decode" /\ out' = out)]_vars
    /\ [](err = "decode" => (out \in {"absent", "old"}
                              /\ pc \notin {"master", "md_ret"}))

\* The wait ran out, a decode raised, and the older output file is untouched
\* while its parent directory was created.
C3_Witness ==
    /\ pc = "md_raised" /\ err = "decode" /\ waitEnd = "exhausted"
    /\ out = "old" /\ parentMade

C5_NeverRaises == wpc # "raised"

ErrorSet(r) == r.error # "None"

\* The file holds nothing the scan can count: no frame, or none within
\* max_seconds.
ZeroDecoded(f) ==
    f.content = "empty" \/ (wlimit = "zero" /\ f.content \in {"ragged", "good"})

\* The cases C6 lists, for a file f that stayed as it is during the call.
ListedCases(f, r) ==
    /\ ~f.exists => (~r.exists /\ ~ErrorSet(r))
    /\ f.exists => (r.exists /\ r.bytes = f.size)
    /\ (f.exists /\ f.size <= 44) => r.error = "File too small"
    /\ (f.exists /\ f.size > 44 /\ f.content = "badwidth")
         => (r.error = "Unsupported sample width" /\ ~r.has_levels)
    /\ (f.exists /\ f.size > 44 /\ ZeroDecoded(f))
         => (r.error = "No frames decoded" /\ ~r.has_levels)
    /\ f.exists => (ErrorSet(r) # r.has_levels)

\* The file is rejected by wave.open or by the decoder.
Rejected(f) ==
    /\ f.exists /\ f.size > 44
    /\ f.content = "malformed" \/ (f.content = "ragged" /\ wlimit # "zero")

Listed(f) ==
    \/ ~f.exists \/ f.size <= 44 \/ f.content = "badwidth" \/ ZeroDecoded(f)

\* C6 (as stated): the listed cases, and in every other case error is None
\* and peak_dbfs and rms_dbfs are set.
C6_ClassificationAsStated ==
    (wpc = "returned" /\ ~touched) =>
        /\ ListedCases(wfile, wres)
        /\ ~Listed(wfile) => (~ErrorSet(wres) /\ wres.has_levels)

\* C6 (amended): the listed cases; a file larger than 44 bytes that wave.open
\* or the decoder rejects gives exists=true, bytes=size, the exception's
\* message as error and no peak/rms; in every other case error is None and
\* peak_dbfs and rms_dbfs are set.  For every record returned with
\* exists=true exactly one of (error set) and (levels set) holds.
C6_Classification ==
    /\ (wpc = "returned" /\ ~touched) =>
          /\ ListedCases(wfile, wres)
          /\ Rejected(wfile) => (wres.error = "exception" /\ ~wres.has_levels)
          /\ (~Listed(wfile) /\ ~Rejected(wfile))
               => (~ErrorSet(wres) /\ wres.has_levels)
    /\ (wpc = "returned" /\ wres.exists) => (ErrorSet(wres) # wres.has_levels)

\* A 100-byte file with a broken header was probed and reported.
C6_Witness ==
    /\ wpc = "returned" /\ ~touched
    /\ wfile.exists /\ wfile.size = 100 /\ wfile.content = "malformed"
    /\ wres.exists /\ wres.bytes = 100 /\ wres.error = "exception"

\* Frames of silence an offset of offset_q / 4 seconds puts before a stem.
Pad(offset_q) ==
    IF offset_q > 0 THEN RoundHalfEven(offset_q * cfg.sample_rate, 4) ELSE 0

Den == GainDen(cfg.ducking_threshold)

GainAt(gains, i) == IF i <= Len(gains) THEN gains[i] ELSE Den

\* C7: with a voice offset s > 0, every frame before round(s * sr) of the sum
\* holds bed energy only: the voice is 0 there, the ducking gain of music and
\* binaural is 1, and mix[i] = music[i] + binaural[i]; 2.0 s at 8000 Hz are
\* 16000 frames.
C7_OffsetPlacement ==
    /\ RoundHalfEven(8 * 8000, 4) = 16000
    /\ (mpc = "done" /\ cfg.voice_offset_q > 0) =>
          \A i \in 1..Pad(cfg.voice_offset_q) :
              /\ i <= Len(mix)
              /\ ducked.v[i] = <<0, 0>>
              /\ GainAt(duck.m, i) = Den /\ GainAt(duck.b, i) = Den
              /\ \A c \in 1..2 :
                    mix[i][c] = FrameAt(placed.m, i)[c] * Den
                                 + FrameAt(placed.b, i)[c] * Den

\* A voice that speaks after its padding ducks the beds later on, while the
\* padded frames hold the beds alone.
C7_Witness ==
    /\ mpc = "done" /\ Pad(cfg.voice_offset_q) >= 2
    /\ \E i \in 1..Pad(cfg.voice_offset_q) : mix[i] # <<0, 0>>
    /\ \E i \in 1..Len(duck.m) : duck.m[i] < Den

\* What stem s contributes to frame i of the sum.
Contribution(s, offset_q, volume_q, gains, i, c) ==
    IF Pad(offset_q) < i /\ i <= Pad(offset_q) + Len(s)
      THEN s[i - Pad(offset_q)][c] * volume_q * GainAt(gains, i)
      ELSE 0

\* C8: the mix has max over the stems of (stem length + round(offset * sr))
\* frames, an offset <= 0 adding none; each stem is added into the prefix
\* its placed length covers, no frame dropped or shifted.
C8_MixLength ==
    mpc = "done" =>
        /\ Len(mix) = Max(Len(stem.v) + Pad(cfg.voice_offset_q),
                          Max(Len(stem.m) + Pad(cfg.music_offset_q),
                              Len(stem.b) + Pad(cfg.binaural_offset_q)))
        /\ \A i \in 1..Len(mix), c \in 1..2 :
              mix[i][c] =
                  Contribution(stem.v, cfg.voice_offset_q, cfg.voice_volume_q,
                               <<>>, i, c)
                  + Contribution(stem.m, cfg.music_offset_q, cfg.music_volume_q,
                                 duck.m, i, c)
                  + Contribution(stem.b, cfg.binaural_offset_q,
                                 cfg.binaural_volume_q, duck.b, i, c)

\* The music bed, placed late, is the longest stem and outlasts a voice that
\* is not empty.
C8_Witness ==
    /\ mpc = "done" /\ Len(stem.v) > 0 /\ Pad(cfg.music_offset_q) > 0
    /\ Len(mix) = Len(stem.m) + Pad(cfg.music_offset_q)
    /\ Len(mix) > Len(placed.v) /\ Len(placed.v) > Len(placed.b)

Ducking == mpc \in {"sum", "done"} /\ DuckingApplies(cfg, placed)

\* The claims about one ducked frame i of a bed: strength = strength_h / 2,
\* threshold thr, envelope e, gain g over Den, sample before x and after
\* y over Den.  strictFor0 tells whether "strictly smaller" is asked of a
\* sample that is 0.
DuckedFrame(strength_h, thr, e, g, x, y, strictFor0) ==
    /\ y * (2 * thr) = x * Den * (2 * thr - strength_h * Max(0, Min(e - thr, thr)))
    /\ (2 - strength_h) * Den <= 2 * g /\ g <= Den
    /\ e <= thr => g = Den
    /\ e >= 2 * thr => 2 * g = (2 - strength_h) * Den
    /\ Abs(y) <= Abs(x) * Den /\ x * y >= 0
    /\ (strength_h > 0 /\ e > thr /\ (strictFor0 \/ x # 0)) => Abs(y) < Abs(x) * Den

DuckedBed(strength_h, gains, before, after, strictFor0) ==
    \A i \in 1..Len(gains), c \in 1..2 :
        DuckedFrame(strength_h, cfg.ducking_threshold, env[i], gains[i],
                    before[i][c], after[i][c], strictFor0)

\* C9 (as stated): with threshold > 0 and strength in [0,1] the gain is
\* 1 - strength * clip((envelope - threshold)/threshold, 0, 1), lies in
\* [1 - strength, 1], is 1 at or below the threshold and 1 - strength from
\* twice the threshold on; no bed sample grows or changes sign, and with
\* strength > 0 a bed sample under an envelope above the threshold gets
\* strictly smaller.
C9_DuckingAsStated ==
    (Ducking /\ cfg.ducking_threshold > 0) =>
        /\ DuckedBed(cfg.ducking_strength_music_h, duck.m, placed.m, ducked.m, TRUE)
        /\ DuckedBed(cfg.ducking_strength_binaural_h, duck.b, placed.b, ducked.b, TRUE)

\* C9 (amended): the same for a threshold of at least 1e-6, "strictly
\* smaller" being said of the bed samples that are not 0.
C9_DuckingAttenuates ==
    (Ducking /\ cfg.ducking_threshold >= DuckMinDiv) =>
        /\ DuckedBed(cfg.ducking_strength_music_h, duck.m, placed.m, ducked.m, FALSE)
        /\ DuckedBed(cfg.ducking_strength_binaural_h, duck.b, placed.b, ducked.b, FALSE)

\* A music sample under an envelope between the threshold and twice the
\* threshold was attenuated, by less than the full strength.
C9_Witness ==
    /\ Ducking /\ cfg.ducking_threshold >= DuckMinDiv
    /\ cfg.ducking_strength_music_h > 0
    /\ \E i \in 1..Len(duck.m) :
          /\ env[i] > cfg.ducking_threshold
          /\ env[i] < 2 * cfg.ducking_threshold
          /\ placed.m[i][1] # 0
          /\ Abs(ducked.m[i][1]) < Abs(placed.m[i][1]) * Den
          /\ 2 * duck.m[i] > (2 - cfg.ducking_strength_music_h) * Den

Released ==
    /\ ey < cfg.ducking_threshold
    /\ Gain(ey, cfg.ducking_threshold, cfg.ducking_strength_music_h) = Den
    /\ Gain(ey, cfg.ducking_threshold, cfg.ducking_strength_binaural_h) = Den

\* C10: once the placed voice is silent for good, the envelope falls below
\* the threshold after finitely many samples and stays there, so the gain of
\* music and binaural is 1 from then on.
C10_DuckingReleases == (<>[](ex = 0)) => <>[]Released

\* The voice is silent and the envelope, still positive, is back under the
\* threshold.
C10_Witness ==
    /\ mpc = "env" /\ ex = 0 /\ ey > 0 /\ Released

\* The gain target_linear / rms that normalize applied is above 1: a sample
\* at full scale was raised beyond it.
GainAboveOne == NormExceeds(knorm.full, knorm)

\* C11 as stated: every sample the master chain hands to save_wave lies in
\* [-1, 1], so the clip inside save_wave alters no sample.
C11_MasterWithinRange ==
    kpc = "saved" =>
        \A i \in 1..Len(ksave) : \A c \in 1..2 : ~ksave[i][c].limited

\* C11, amended: the samples normalize was given lie in [-1, 1], so each
\* sample handed to save_wave is at most the gain in magnitude; when the gain
\* is at most 1 the clip inside save_wave alters no sample, and a sample it
\* does alter is a non-zero sample raised by a gain above 1.
C11_MasterRange ==
    kpc = "saved" =>
        /\ \A i \in 1..Len(ksave) : \A c \in 1..2 :
              /\ Abs(ksave[i][c].k) <= knorm.full
              /\ ksave[i][c].limited => (GainAboveOne /\ ksave[i][c].k # 0)
        /\ ~GainAboveOne =>
              \A i \in 1..Len(ksave) : \A c \in 1..2 : ~ksave[i][c].limited

\* A mix of 8 frames or more at 2 Hz was faded (ramps in thirds), clipped at
\* full scale and normalized with a gain of at most 1; save_wave altered
\* none of its samples, one of them at full scale.
C11_Witness ==
    /\ kpc = "saved" /\ ksr = 2 /\ kden = 3 /\ Len(ksave) >= 8
    /\ ~GainAboveOne
    /\ \E i \in 1..Len(ksave) :
          ksave[i][1].k = knorm.full /\ ~ksave[i][1].limited

\* The file in its present state was written by save_wave.
Saved == sig.ndim \in {1, 2} /\ cpc \in {"chunk", "read", "decode", "done"}

\* The samples of save_wave's argument in file order.
Given == Flatten(sig.frames)

\* The j-th 16-bit value of the file, read as little-endian two's complement.
WrittenValue(j) ==
    ((wavfile.data[2 * j - 1] + 256 * wavfile.data[2 * j] + 32768) % 65536)
        - 32768

WrittenCount == Len(wavfile.data) \div 2

\* C12: every 16-bit value save_wave writes lies in [-32767, 32767] and is
\* the value of the clipped sample: it has the sign of the given sample (no
\* wrap-around), and a sample at or beyond full scale is written as 32767 or
\* -32767.
C12_WrittenInRange ==
    Saved =>
        \A j \in 1..WrittenCount :
            /\ WrittenValue(j) >= -Int16Scale
            /\ WrittenValue(j) <= Int16Scale
            /\ Given[j] >= 0 => WrittenValue(j) >= 0
            /\ Given[j] <= 0 => WrittenValue(j) <= 0
            /\ Given[j] >= SampleDen => WrittenValue(j) = Int16Scale
            /\ Given[j] <= -SampleDen => WrittenValue(j) = -Int16Scale

\* A stereo signal with samples beyond full scale on both sides has been
\* written in two chunks.
C12_Witness ==
    /\ Saved /\ cpc = "read" /\ sig.ndim = 2 /\ Len(sig.frames) > chunk_size
    /\ \E j \in 1..WrittenCount :
          Given[j] > SampleDen /\ WrittenValue(j) = Int16Scale
    /\ \E j \in 1..WrittenCount :
          Given[j] < -SampleDen /\ WrittenValue(j) = -Int16Scale

\* C13: the value written for a sample x in [-1, 1] is the integer nearest to
\* x * 32767 (whatever the rule for ties): it differs from x * 32767 by at
\* most one half.
C13_QuantizeRounds ==
    Saved =>
        \A j \in 1..WrittenCount :
            Abs(Given[j]) <= SampleDen =>
                2 * Abs(SubSteps * WrittenValue(j) - Given[j]) <= SubSteps

\* x - x' for x = n / SampleDen written and x' = s / 32768 read back, times
\* SampleDen * 32768: 32768 * n - SampleDen * s, with SampleDen written as
\* SubSteps * 32768 - SubSteps.
RoundTripError(n, s) == 32768 * (n - SubSteps * s) + SubSteps * s

\* C14: a signal with samples in [-1, 1] that was written by save_wave and
\* read back by read_wave has the same frame and channel counts, and each
\* sample x comes back as x' with |x - x'| <= 1/32767.
C14_RoundTrip ==
    (cpc = "done" /\ sig.ndim \in {1, 2}) =>
        /\ decoded.kind = "ok"
        /\ decoded.ndim = sig.ndim
        /\ Len(decoded.frames) = Len(sig.frames)
        /\ \A i \in 1..Len(sig.frames) :
              /\ Len(decoded.frames[i]) = Len(sig.frames[i])
              /\ \A c \in 1..Len(sig.frames[i]) :
                    Abs(sig.frames[i][c]) <= SampleDen =>
                        /\ decoded.frames[i][c][2] = 15
                        /\ Abs(RoundTripError(sig.frames[i][c],
                                              decoded.frames[i][c][1]))
                             <= SubSteps * 32768

\* The samples read_wave returned, in file order.
Returned == Flatten(decoded.frames)

\* The value the claim gives for the sample stored in the bytes bs.
Specified(bs) ==
    LET w == Len(bs)
        u == Unsigned(SubSeq(bs, 1, Min(w, 3)))
    IN  CASE w = 1 -> <<u - 128, 7>>
          [] w = 2 -> <<((u + 32768) % 65536) - 32768, 15>>
          [] w = 3 -> <<((u + 8388608) % 16777216) - 8388608, 23>>
          [] w = 4 -> <<u + 16777216 * (((bs[4] + 128) % 256) - 128), 31>>

\* num / 2^bits lies in [-1, 1).
InUnitRange(v) ==
    LET half == 2 ^ (v[2] - 1)
    IN  v[1] >= (-half) * 2 /\ v[1] <= (half - 1) * 2 + 1

\* C15: for the widths 1, 2, 3 and 4 each decoded sample is (u-128)/128,
\* s/32768, v/8388608 (v the 24-bit little-endian value sign-extended from
\* bit 23) and s/2147483648, and lies in [-1, 1).
C15_DecodeAsSpecified ==
    (cpc = "done" /\ decoded.kind = "ok") =>
        /\ wavfile.sampwidth \in SupportedWidths
        /\ Len(Returned) * wavfile.sampwidth = Len(wavfile.data)
        /\ \A i \in 1..Len(Returned) :
              /\ Returned[i] =
                   Specified(SampleBytes(wavfile.data, wavfile.sampwidth, i))
              /\ InUnitRange(Returned[i])

\* A 24-bit sample with bit 23 set was decoded to a negative value, down to
\* -1 for 0x800000.
C15_Witness ==
    /\ cpc = "done" /\ wavfile.sampwidth = 3
    /\ wavfile.data = <<0, 0, 128>>
    /\ Returned = <<<<-8388608, 23>>>>

\* C16: reading a file whose sample width is not 1, 2, 3 or 4 bytes ends
\* with an exception and returns no signal.
C16_UnsupportedWidthRaises ==
    /\ cpc = "done" => wavfile.sampwidth \in SupportedWidths
    /\ (cpc \in {"done", "raised"} /\ sig = NoSignal
            /\ wavfile.sampwidth \notin SupportedWidths) =>
          /\ cpc = "raised"
          /\ decoded.kind = "raised"

\* A file of 5-byte samples reached _decode_pcm, which raised ValueError.
C16_Witness ==
    /\ cpc = "raised" /\ wavfile.sampwidth = 5
    /\ decoded = Raised("ValueError")

\* The call of function f has ended.
Ended(f) == dcall.fn = f /\ dpc \in {"returned", "raised"}

\* C17: resample_linear returns its input when the rates are equal or the
\* input has fewer than 2 frames; otherwise the output has
\* round(len * sr_out / sr_in) frames of the same channels, and an output of
\* at least 2 frames starts and ends with the input's first and last frames.
C17_Resample ==
    Ended("resample_linear") =>
        LET s == dcall.signal
            n == Len(s.frames)
            n_out == Len(dret.frames)
        IN  /\ dret.kind = "ok"
            /\ dret.ndim = s.ndim
            /\ \A j \in 1..n_out : Len(dret.frames[j]) = s.channels
            /\ (dcall.sr_in = dcall.sr_out \/ n < 2) =>
                  dret.den = 1 /\ dret.frames = s.frames
            /\ ~(dcall.sr_in = dcall.sr_out \/ n < 2) =>
                  /\ 2 * Abs(n_out * dcall.sr_in - n * dcall.sr_out)
                        <= dcall.sr_in
                  /\ 2 * Abs(n_out * dcall.sr_in - n * dcall.sr_out)
                        = dcall.sr_in => n_out % 2 = 0
                  /\ n_out >= 2 =>
                        \A c \in 1..s.channels :
                            /\ dret.frames[1][c] = s.frames[1][c] * dret.den
                            /\ dret.frames[n_out][c]
                                 = s.frames[n][c] * dret.den

\* A stereo signal of 3 frames was resampled from 2 Hz to 3 Hz: 4 frames
\* (4.5 rounds to the even 4), the first and last as in the input, which
\* differ.
C17_Witness ==
    /\ Ended("resample_linear") /\ dcall.signal.ndim = 2
    /\ dcall.sr_in = 2 /\ dcall.sr_out = 3
    /\ Len(dcall.signal.frames) = 3 /\ Len(dret.frames) = 4
    /\ dcall.signal.frames[1] # dcall.signal.frames[3]
    /\ dret.den = 3
    /\ dret.frames[4][2] = 3 * dcall.signal.frames[3][2]

\* The value returned by fade equals its argument, sample by sample.
FadeUnchanged ==
    /\ dret.kind = "ok"
    /\ Len(dret.samples) = Len(dcall.signal)
    /\ \A i \in 1..Len(dcall.signal) :
          dret.samples[i] = dcall.signal[i] * dret.den

\* C18 as stated: fade with a fade time of 0, or of a signal shorter than
\* 2 * fadeSeconds * sr samples, returns the signal unchanged.
C18_FadeGuardAsStated ==
    Ended("fade") =>
        /\ dcall.fade_q = 0 => FadeUnchanged
        /\ 4 * Len(dcall.signal) < 2 * dcall.fade_q * dcall.sr => FadeUnchanged

\* The fade length in whole samples: the integer part of fadeSeconds * sr.
WholeFadeLen ==
    CHOOSE n \in 0..(2 * MaxFadeLen + 2) :
        4 * n <= dcall.fade_q * dcall.sr /\ dcall.fade_q * dcall.sr < 4 * (n + 1)

\* C18, amended: fade with a fade time of 0, or of a signal shorter than
\* 2 * n samples, n the integer part of fadeSeconds * sr, returns the signal
\* unchanged; when ramps are applied they do not overlap (2 * n <= length)
\* and the samples between them keep their value.
C18_FadeGuard ==
    (Ended("fade") /\ dcall.fade_q >= 0) =>
        /\ dcall.fade_q = 0 => FadeUnchanged
        /\ Len(dcall.signal) < 2 * WholeFadeLen => FadeUnchanged
        /\ ~FadeUnchanged =>
              /\ dret.kind = "ok"
              /\ 2 * WholeFadeLen <= Len(dcall.signal)
              /\ \A i \in (WholeFadeLen + 1)..(Len(dcall.signal) - WholeFadeLen) :
                    dret.samples[i] = dcall.signal[i] * dret.den

\* A signal of 5 non-zero samples was returned unchanged by a fade of 3
\* samples (1.5 s at 2 Hz), shorter than the signal but longer than its half.
C18_Witness ==
    /\ Ended("fade") /\ dcall.fade_q = 6 /\ dcall.sr = 2
    /\ dcall.signal = <<4, 4, 4, 4, 4>>
    /\ dret.den = 1 /\ dret.samples = dcall.signal

\* C19: normalize of an empty or all-zero signal returns normally, with as
\* many samples as given, each exactly 0, for every target.
C19_NormalizeSilence ==
    (Ended("normalize") /\ \A i \in 1..Len(dcall.signal) : dcall.signal[i] = 0) =>
        /\ dret.kind = "ok"
        /\ dret.den > 0
        /\ Len(dret.samples) = Len(dcall.signal)
        /\ \A i \in 1..Len(dret.samples) : dret.samples[i] = 0

\* Two zero samples went through the multiplication by target / rms (the rms
\* of silence is sqrt(1e-9), not 0) and are still 0.
C19_Witness ==
    /\ Ended("normalize") /\ dcall.signal = <<0, 0>> /\ dcall.target_db = 20
    /\ dret.kind = "ok" /\ dret.scaled /\ dret.samples = <<0, 0>>

RECURSIVE SumAbs(_)
SumAbs(flat) == IF flat = <<>> THEN 0 ELSE Abs(Head(flat)) + SumAbs(Tail(flat))

\* C20: for a signal that is not all zero, the RMS of what normalize returns
\* is 10^(target_db/20) within tolerance: the mean of the returned squares
\* is within one hundredth of the target squared.
C20_NormalizeReachesTarget ==
    (Ended("normalize") /\ \E i \in 1..Len(dcall.signal) : dcall.signal[i] # 0) =>
        LET t2 == TargetSq(dcall.target_db)
            size == Len(dret.samples)
        IN  /\ dret.kind = "ok"
            /\ 100 * Abs(SumAbs(dret.samples) * t2[2]
                         - t2[1] * size * dret.den)
                 <= t2[1] * size * dret.den

\* C21: a generator that returned has written a stereo file of 2-byte samples
\* at the given sample rate holding exactly
\* sample_rate * max(60, 60 * duration_minutes) frames, which is never less
\* than 60 seconds of audio, whatever the sign of duration_minutes.
C21_BedLength ==
    bpc = "saved" =>
        LET dm == bcall.duration_minutes
            sr == bcall.sample_rate
            secs == IF 60 * dm > 60 THEN 60 * dm ELSE 60
        IN  /\ bfile.exists
            /\ bfile.nchannels = 2
            /\ bfile.sampwidth = 2
            /\ bfile.framerate = sr
            /\ bfile.nframes = sr * secs
            /\ bfile.nframes >= 60 * sr

\* The binaural track of a negative duration, written with its 60 seconds.
C21_Witness ==
    /\ bpc = "saved"
    /\ bcall.gen = "binaural"
    /\ bcall.duration_minutes < 0
    /\ bfile.nframes = 60 * bcall.sample_rate

\* What call c writes when it runs alone: the mix of the stems as they were
\* when the calls started, under its own settings.
AloneOutput(c) ==
    [kind |-> "mix",
     of |-> [v |-> qstems0[qvoice[c]], m |-> qstems0["music"],
             b |-> qstems0["binaural"]],
     settings |-> qsettings[c]]

\* C22: under every interleaving of two calls with distinct output paths, a
\* call that returned has written the output it writes when run alone, the
\* other call's output path holds nothing of it, and no stem file has
\* changed.
C22_NoInterference ==
    /\ qstems = qstems0
    /\ \A c \in Calls :
          /\ qpc[c] = "done" => qout[OutPath(c)] = AloneOutput(c)
          /\ qpc[c] \in {"ensure", "wait", "load_v", "load_m", "load_b",
                         "compute", "open"}
                => qout[OutPath(c)] \in {AbsentOut, OldOut}

\* Both calls returned after sharing the voice stem and the output
\* directory, with different settings.
C22_Witness ==
    /\ qpc = [c \in Calls |-> "done"]
    /\ qvoice[2] = qvoice[1]
    /\ qsamedir
    /\ qsettings[1] # qsettings[2]
    /\ qout[1] # qout[2]

\* C23: the beat returned is strictly positive; an override above 0 comes
\* back unchanged; without one a named band gives 2, 6, 10, 18 or 40 Hz;
\* with the band on auto the objective decides (sommeil and douleur 2 Hz,
\* stress and confiance 10 Hz, performance 40 Hz) and anything else gives
\* theta's 6 Hz.
C23_BeatResolved ==
    hpc = "returned" =>
        /\ hret.beat > 0
        /\ hreq.binaural_beat_hz > 0 => hret.beat = hreq.binaural_beat_hz
        /\ hreq.binaural_beat_hz = 0 =>
              hret.beat =
                CASE hreq.binaural_band = "delta" -> 20
                  [] hreq.binaural_band = "theta" -> 60
                  [] hreq.binaural_band = "alpha" -> 100
                  [] hreq.binaural_band = "beta" -> 180
                  [] hreq.binaural_band = "gamma" -> 400
                  [] hreq.binaural_band = "auto"
                       /\ hreq.objectif \in {"sommeil", "douleur"} -> 20
                  [] hreq.binaural_band = "auto"
                       /\ hreq.objectif \in {"stress", "confiance"} -> 100
                  [] hreq.binaural_band = "auto"
                       /\ hreq.objectif = "performance" -> 400
                  [] OTHER -> 60

\* A request on auto without an override, resolved through its objective.
C23_Witness ==
    /\ hpc = "returned"
    /\ hreq.binaural_beat_hz = 0
    /\ hreq.binaural_band = "auto"
    /\ hreq.objectif = "douleur"
    /\ hret = [band |-> "delta", beat |-> 20]

\* C24: whenever synthesize_tts_cached returns (cache hit, successful
\* synthesis, failure followed by a successful local fallback) the value is
\* a triple, a WAV is at output_path, and the caller's unpacking succeeds.
C24_ReturnsTriple ==
    /\ tpc \in {"returned", "unpacked", "music", "TypeError"} =>
          tret.kind = "tuple" /\ tout.exists
    /\ tpc # "TypeError"

\* The condition of line 113, on the placed stems.
DuckCondition ==
    /\ cfg.ducking_enabled
    /\ Len(placed.v) > 0
    /\ Len(placed.m) > 0 \/ Len(placed.b) > 0

\* Frame i of a stem is after line 126 what it was before (over Den).
SameFrame(before, after, i) ==
    /\ after[i][1] = before[i][1] * Den
    /\ after[i][2] = before[i][2] * Den

\* A bed keeps its length, and every frame at or beyond
\* min(bed length, placed-voice length) or outside the condition of line 113
\* keeps its value.
BedTouchedOnlyUnderVoice(before, after) ==
    /\ Len(after) = Len(before)
    /\ \A i \in 1..Len(before) :
          (i > Min(Len(before), Len(placed.v)) \/ ~DuckCondition)
              => SameFrame(before, after, i)

\* C25: ducking changes bed samples only at frames below
\* min(bed length, placed-voice length), and only when ducking is enabled,
\* the placed voice is not empty and a bed is not empty; the bed frames
\* beyond the voice, the voice itself, and every stem when ducking is off
\* are unchanged.
C25_DuckingFrame ==
    mpc \in {"sum", "done"} =>
        /\ Len(ducked.v) = Len(placed.v)
        /\ \A i \in 1..Len(placed.v) : SameFrame(placed.v, ducked.v, i)
        /\ BedTouchedOnlyUnderVoice(placed.m, ducked.m)
        /\ BedTouchedOnlyUnderVoice(placed.b, ducked.b)

\* The music outlasts the placed voice and its non-zero frame after the
\* voice kept its value; the binaural frame under the voice was attenuated.
C25_Witness ==
    /\ mpc \in {"sum", "done"} /\ DuckCondition
    /\ Len(placed.m) > Len(placed.v)
    /\ \E i \in (Len(placed.v) + 1)..Len(placed.m) :
          /\ placed.m[i][1] # 0
          /\ SameFrame(placed.m, ducked.m, i)
    /\ \E i \in 1..Min(Len(placed.b), Len(placed.v)) :
          ~SameFrame(placed.b, ducked.b, i)

\* alpha of the call of line 116, as <<numerator, denominator>>.
EnvAlpha == Alpha(cfg.sample_rate, cfg.ducking_release_ms)

\* |x[i]|, the rectified first channel of the placed voice.
VoiceAbs(i) == Abs(placed.v[i][1])

\* The largest |x[j]| for j <= i.
RECURSIVE PeakUpTo(_)
PeakUpTo(i) == IF i = 0 THEN 0 ELSE Max(VoiceAbs(i), PeakUpTo(i - 1))

\* y is alpha * prev + (1 - alpha) * x on the amplitude grid.
FollowsIir(prev, x, y) ==
    /\ EnvAlpha[2] * y <= EnvAlpha[1] * prev + (EnvAlpha[2] - EnvAlpha[1]) * x
    /\ EnvAlpha[1] * prev + (EnvAlpha[2] - EnvAlpha[1]) * x
          < EnvAlpha[2] * (y + 1)

FramesWritten == Len(wavfile.data) \div (2 * wavfile.nchannels)

\* writeframes calls made so far: start advances by chunk_size per call.
WritesIssued == start \div chunk_size

\* C27: the chunk loop writes every frame once and in order.  After k
\* writes the file holds exactly the frames [0, min(k * chunk_size, n)) of
\* the clipped signal, so a write adds at most chunk_size frames and the
\* chunks neither leave a gap nor overlap; when the loop is over
\* ceil(n / chunk_size) writes were issued and n frames written (no write
\* for an empty signal).
C27_ChunkLoop ==
    Saved =>
        LET n == Len(clipped)
            ch == wavfile.nchannels
        IN  /\ start = WritesIssued * chunk_size
            /\ Len(wavfile.data) = FramesWritten * 2 * ch
            /\ FramesWritten = Min(WritesIssued * chunk_size, n)
            /\ \A f \in 1..FramesWritten, c \in 1..ch :
                  WrittenValue((f - 1) * ch + c) = Quantize(clipped[f][c])
            /\ cpc # "chunk" =>
                  /\ FramesWritten = n
                  /\ WritesIssued = (n + chunk_size - 1) \div chunk_size

\* A stereo signal of one frame more than a chunk, saved in two writes.
C27_Witness ==
    /\ Saved /\ cpc = "read"
    /\ sig.ndim = 2
    /\ Len(clipped) = chunk_size + 1
    /\ WritesIssued = 2
    /\ FramesWritten = chunk_size + 1

\* C28: the samples the scan decodes from a chunk are those _decode_pcm
\* returns for the same bytes and width, for the widths 1 to 4; where one
\* raises on a chunk that is not a whole number of samples, so does the
\* other.
C28_SameDecoder ==
    (spc \in {"loop", "handler", "finish", "returned"} /\ sraw # <<>>)
        => sx = decode_pcm(sraw, sfile.sampwidth)

\* A 24-bit chunk with a negative sample, decoded by the scan.
C28_Witness ==
    /\ spc = "loop" /\ sfile.sampwidth = 3
    /\ sx.kind = "ok" /\ Len(sx.x) = 2
    /\ sx.x[2] = <<-1, 23>>
    /\ sx = decode_pcm(sraw, 3)

FrameBytes == sfile.nchannels * sfile.sampwidth

\* int(max_seconds * sample_rate)
SecondsInFrames == TruncDiv(smax.q * sfile.framerate, 4)

\* The bound as stated: min(nframes, int(max_seconds * sample_rate)) frames
\* whenever max_seconds is given.
StatedLimit ==
    IF smax.given THEN Min(sfile.nframes, SecondsInFrames) ELSE sfile.nframes

\* The bound the loop keeps: max_seconds counts when the frame rate is
\* positive.
KeptLimit ==
    IF smax.given /\ sfile.framerate > 0
      THEN Min(sfile.nframes, SecondsInFrames)
      ELSE sfile.nframes

\* The frames read so far, downmixed in one piece: the sum over the channels
\* of each frame of the data before the position of the handle.
FramesSoFar ==
    LET d == decode_pcm(SubSeq(sfile.data, 1, spos), sfile.sampwidth).x
    IN  [f \in 1..(spos \div FrameBytes) |->
            IF sfile.nchannels = 1 THEN d[f][1]
            ELSE d[2 * f - 1][1] + d[2 * f][1]]

\* At most limit frames are read (none for a negative limit); every chunk
\* is of at most chunk_frames frames; the loop is left when
\* remaining is 0 or below, when the file gave no more data, or through the
\* decoder's exception; and as long as whole frames were read, peak, sumsq
\* and count are those of exactly the frames read.
ScanAccounts(limit) ==
    /\ spos <= Max(0, limit) * FrameBytes
    /\ sn <= chunk_frames
    /\ Len(sraw) <= sn * FrameBytes
    /\ spc = "finish" => sraw = <<>>
    /\ spc = "handler" => sx.kind = "raised"
    /\ (spc = "returned" /\ sres.error # "exception")
          => (sremaining <= 0 \/ sraw = <<>>)
    /\ (spc \in {"loop", "finish"} /\ spos % FrameBytes = 0) =>
          /\ scount = spos \div FrameBytes
          /\ ssumsq = SumSq(FramesSoFar)
          /\ speak = MaxAbs(FramesSoFar)

\* C29 (as stated): the state part of the claim with the bound
\* min(nframes, int(max_seconds * sample_rate)) for every given max_seconds.
C29_BoundAsStated == ScanAccounts(StatedLimit)

ScanDecreases ==
    (spc = "loop" /\ spc' = "loop") =>
        (sremaining' < sremaining /\ sremaining' >= 0)

\* C29 (amended): the scan terminates; it reads at most
\* min(nframes, int(max_seconds * sample_rate)) frames when max_seconds is
\* given and the frame rate is positive, at most nframes otherwise, in
\* chunks of at most chunk_frames frames; remaining strictly
\* decreases with every iteration that stays in the loop; the loop stops at
\* 0, when the file yields no more data or on a decoding error; peak, sumsq
\* and count are those of exactly the frames read.
C29_ScanLoop ==
    /\ []ScanAccounts(KeptLimit)
    /\ [][ScanDecreases]_vars
    /\ <>(spc = "returned")

\* A limit of one second cut the scan of a three-frame file after one chunk
\* of two frames.
C29_Witness ==
    /\ spc = "returned" /\ sres.error = "None"
    /\ smax.given /\ sfile.framerate = 2 /\ sfile.nframes = 3
    /\ SecondsInFrames = 2
    /\ spos = 2 * FrameBytes
    /\ Len(sfile.data) = 3 * FrameBytes
    /\ scount = 2


\* sqrt(sumsq / count) as the argument of the logarithm, with no term added
\* under the root.
RmsAsStated == Log10Arg(<<ssumsq, scount>>, 0)

\* C30: a scan that returns levels returns
\* peak_dbfs = 20*log10(max(peak, 1e-12)) and
\* rms_dbfs = 20*log10(max(sqrt(sumsq/count), 1e-12)); for digital silence
\* both are the floor value of -240 dBFS.
C30_LevelsAsStated ==
    (spc = "returned" /\ sres.error = "None") =>
        /\ sres.peak_dbfs = Log10Arg(<<speak * speak, 1>>, 0)
        /\ sres.rms_dbfs = RmsAsStated
        /\ (speak = 0 /\ ssumsq = 0) =>
              (sres.peak_dbfs.floored /\ sres.rms_dbfs.floored)

====
